---------------------------- MODULE Spec2Model ----------------------------
(***************************************************************************)
(* A model of compdb-vs: the generator of a compilation database from the  *)
(* tracker logs (tlog files) of a Visual Studio build.                     *)
(*                                                                         *)
(* Text is modelled character by character: a string is a sequence of      *)
(* one-character strings, a byte stream is a sequence of bytes, the bytes   *)
(* 0xFF, 0xFE and 0x00 being written "FF", "FE" and "00".  Paths follow    *)
(* std::filesystem as the program's platform (Windows, MSVC) implements    *)
(* it: a drive letter and a colon are a root name, both slashes separate,  *)
(* and the disk compares names without regard to case.                     *)
(***************************************************************************)
EXTENDS Integers, Sequences, FiniteSets, TLC

VARIABLES
    env,                \* the tlog files, the contents of the sources, skipHeaders
    pc,                 \* where createCompileCommands stands
    tlogIdx,            \* the tlog file of tlogFiles being processed
    lines,              \* the lines of that tlog file
    lineIdx,            \* the next line of `lines`
    compileCommands,    \* createCompileCommands' vector of the same name
    additionalCommands, \* its std::optional: <<>> (nullopt) or <<batch>>
    error,              \* the error returned, "" when none
    opened,             \* the files opened to scan for directives
    warnings,           \* what logWarning was called with, in the order of the calls
    casingPath,         \* getCorrectCasingForPath's argument
    casingResult,       \* its Result
    streamIn,           \* the std::istream handed to the reader, as constructed
    stream,             \* that stream as the reader leaves it: [bytes, pos, good]
    encoding,           \* getFileEncoding's return value
    fileLines,          \* readFileLines' Result
    cmdLine,            \* findIncludePaths' argument
    pathsFound,         \* its Result
    walk,               \* findTlogFiles' arguments and the directories that cannot be listed
    foundTlogs,         \* its Result
    m_data,             \* a Result object's variant: [index, held]
    accessed,           \* what the last call of one of its accessors did
    argv,               \* the driver's arguments and what its run meets on the disk
    mainState           \* where main stands, its locals, its output, its exit status
                        \* and the step it left from

pipelineVars == <<env, pc, tlogIdx, lines, lineIdx, compileCommands,
                  additionalCommands, error, opened, warnings>>
casingVars == <<casingPath, casingResult>>
readerVars == <<streamIn, stream, encoding, fileLines>>
includeVars == <<cmdLine, pathsFound>>
walkVars == <<walk, foundTlogs>>
resultVars == <<m_data, accessed>>
driverVars == <<argv, mainState>>
unitVars == <<includeVars, walkVars, resultVars, driverVars>>
vars == <<pipelineVars, casingVars, readerVars, unitVars>>

---------------------------------------------------------------------------
(* Characters and strings                                                  *)

UpperChars == <<"A","B","C","D","E","F","G","H","I","J","K","L","M",
                "N","O","P","Q","R","S","T","U","V","W","X","Y","Z">>
LowerChars == <<"a","b","c","d","e","f","g","h","i","j","k","l","m",
                "n","o","p","q","r","s","t","u","v","w","x","y","z">>

Range(f) == {f[i] : i \in DOMAIN f}
Min(S) == CHOOSE x \in S : \A y \in S : x <= y
Max(S) == CHOOSE x \in S : \A y \in S : x >= y

ToLowerTable == [c \in Range(UpperChars) |->
                    LowerChars[CHOOSE i \in 1..26 : UpperChars[i] = c]]
ToUpperTable == [c \in Range(LowerChars) |->
                    UpperChars[CHOOSE i \in 1..26 : LowerChars[i] = c]]

\* the vertical tab, '\v' in C++
x0B == ""

\* std::tolower, std::toupper, std::isalpha, std::isspace in the "C" locale
tolower(c) == IF c \in DOMAIN ToLowerTable THEN ToLowerTable[c] ELSE c
toupper(c) == IF c \in DOMAIN ToUpperTable THEN ToUpperTable[c] ELSE c
isalpha(c) == c \in DOMAIN ToLowerTable \/ c \in DOMAIN ToUpperTable
isspace(c) == c \in {" ", "\t", "\n", x0B, "\f", "\r"}

\* std::string::npos is size_t(-1): npos + 1 wraps to 0, as -1 + 1 does
Npos == -1

\* std::string with 0-based positions
At(s, i) == s[i + 1]
Substr(s, pos, n) == SubSeq(s, pos + 1, Min({pos + n, Len(s)}))
SubstrFrom(s, pos) == SubSeq(s, pos + 1, Len(s))
StartsWith(s, p) == Len(s) >= Len(p) /\ SubSeq(s, 1, Len(p)) = p
EndsWith(s, p) == Len(s) >= Len(p) /\ SubSeq(s, Len(s) - Len(p) + 1, Len(s)) = p
Find(s, p, pos) ==
    LET hits == {i \in pos..(Len(s) - Len(p)) : SubSeq(s, i + 1, i + Len(p)) = p}
    IN  IF hits = {} THEN Npos ELSE Min(hits)
Replace(s, pos, n, r) == SubSeq(s, 1, pos) \o r \o SubSeq(s, pos + n + 1, Len(s))
Contains(s, p) == Find(s, p, 0) # Npos

---------------------------------------------------------------------------
(* std::filesystem::path, as MSVC implements it                            *)

Sep == "\\"
IsSlash(c) == c \in {"\\", "/"}

\* the length of the root name: a drive letter and a colon, or nothing
RootNameLen(s) == IF Len(s) >= 2 /\ isalpha(s[1]) /\ s[2] = ":" THEN 2 ELSE 0
RootName(s) == SubSeq(s, 1, RootNameLen(s))
HasRootName(s) == RootNameLen(s) > 0
HasRootDirectory(s) == Len(s) > RootNameLen(s) /\ IsSlash(s[RootNameLen(s) + 1])
IsAbsolute(s) == HasRootName(s) /\ HasRootDirectory(s)

RECURSIVE SkipSlashes(_, _)
SkipSlashes(s, i) == IF i <= Len(s) /\ IsSlash(s[i]) THEN SkipSlashes(s, i + 1) ELSE i

RECURSIVE SkipName(_, _)
SkipName(s, i) == IF i <= Len(s) /\ ~IsSlash(s[i]) THEN SkipName(s, i + 1) ELSE i

\* the index (1-based) where the relative path starts
RelativeStart(s) == SkipSlashes(s, RootNameLen(s) + 1)

RECURSIVE StripName(_, _, _)
StripName(s, rel, last) ==
    IF last >= rel /\ ~IsSlash(s[last]) THEN StripName(s, rel, last - 1) ELSE last

RECURSIVE StripSlashes(_, _, _)
StripSlashes(s, rel, last) ==
    IF last >= rel /\ IsSlash(s[last]) THEN StripSlashes(s, rel, last - 1) ELSE last

\* path::parent_path: the path without its filename and the slashes before it;
\* the parent of a root is the root itself
ParentPath(s) ==
    LET rel == RelativeStart(s)
    IN  SubSeq(s, 1, StripSlashes(s, rel, StripName(s, rel, Len(s))))
HasParentPath(s) == ParentPath(s) # <<>>

\* path::filename: what follows the last slash, never part of the root name
Filename(s) ==
    LET slashes == {i \in (RootNameLen(s) + 1)..Len(s) : IsSlash(s[i])}
        start == IF slashes = {} THEN RootNameLen(s) + 1 ELSE Max(slashes) + 1
    IN  SubSeq(s, start, Len(s))

\* the filenames of the relative path from index i; a trailing slash ends the
\* sequence with an empty filename
RECURSIVE Components(_, _)
Components(s, i) ==
    IF i > Len(s) THEN <<>>
    ELSE LET j == SkipName(s, i)
             k == SkipSlashes(s, j)
         IN  IF j > Len(s) THEN <<SubSeq(s, i, j - 1)>>
             ELSE IF k > Len(s) THEN <<SubSeq(s, i, j - 1), <<>>>>
             ELSE <<SubSeq(s, i, j - 1)>> \o Components(s, k)

\* the root directory as the path spells it: the slashes after the root name
RootDirectory(s) == SubSeq(s, RootNameLen(s) + 1, RelativeStart(s) - 1)

\* the elements path::begin() .. path::end() iterates over
Elements(s) ==
    (IF HasRootName(s) THEN <<RootName(s)>> ELSE <<>>)
    \o (IF HasRootDirectory(s) THEN <<RootDirectory(s)>> ELSE <<>>)
    \o Components(s, RelativeStart(s))

\* path::operator/
PathJoin(a, b) ==
    IF IsAbsolute(b) THEN b
    ELSE IF HasRootName(b) /\ RootName(b) # RootName(a) THEN b
    ELSE IF HasRootDirectory(b)
         THEN RootName(a) \o SubSeq(b, RootNameLen(b) + 1, Len(b))
    ELSE LET sep == IF RootNameLen(a) = Len(a) \/ IsSlash(a[Len(a)])
                    THEN <<>> ELSE <<Sep>>
         IN  a \o sep \o SubSeq(b, RootNameLen(b) + 1, Len(b))

Dot == <<".">>
DotDot == <<".", ".">>

\* the filenames left after "." and "name\.." are removed; `rooted` drops a
\* leading ".."
RECURSIVE NormalNames(_, _, _)
NormalNames(names, stack, rooted) ==
    IF names = <<>> THEN stack
    ELSE LET c == Head(names)
             next == IF c = Dot \/ c = <<>> THEN stack
                     ELSE IF c = DotDot
                          THEN IF stack # <<>> /\ stack[Len(stack)] # DotDot
                               THEN SubSeq(stack, 1, Len(stack) - 1)
                               ELSE IF stack = <<>> /\ rooted THEN stack
                               ELSE Append(stack, c)
                     ELSE Append(stack, c)
         IN  NormalNames(Tail(names), next, rooted)

RECURSIVE JoinNames(_)
JoinNames(names) ==
    IF names = <<>> THEN <<>>
    ELSE IF Len(names) = 1 THEN names[1]
    ELSE names[1] \o <<Sep>> \o JoinNames(Tail(names))

\* the text of a normal path: its root, the filenames kept, and a separator at
\* the end when the path ended with one, or with a "." or ".." that was removed
NormalText(root, names, kept) ==
    LET last == IF names = <<>> THEN <<"-">> ELSE names[Len(names)]
        trailing == /\ kept # <<>>
                    /\ kept[Len(kept)] # DotDot
                    /\ last \in {<<>>, Dot, DotDot}
        txt == root \o JoinNames(kept) \o (IF trailing THEN <<Sep>> ELSE <<>>)
    IN  IF txt = <<>> THEN Dot ELSE txt

NormalOf(s, names) ==
    NormalText(RootName(s) \o (IF HasRootDirectory(s) THEN <<Sep>> ELSE <<>>),
               names, NormalNames(names, <<>>, HasRootDirectory(s)))

\* path::lexically_normal
LexicallyNormal(s) ==
    IF s = <<>> THEN <<>> ELSE NormalOf(s, Components(s, RelativeStart(s)))

---------------------------------------------------------------------------
(* The disk.  Every file and directory is on drive C:, named here by its   *)
(* filenames below C:\ in their on-disk casing and listed in the order the *)
(* directory iterator reports them.  The process runs in C:\w.             *)

Digits == <<"1","2","3","4","5","6","7","8","9">>

Cwd == << <<"w">> >>

SourceTree == <<
    [name |-> << >>,                                                dir |-> TRUE],
    [name |-> << <<"w">> >>,                                        dir |-> TRUE],
    [name |-> << <<"w">>, <<"b">> >>,                               dir |-> TRUE],
    [name |-> << <<"w">>, <<"e">> >>,                               dir |-> FALSE],
    [name |-> << <<"w">>, <<"I","n","c">> >>,                             dir |-> TRUE],
    [name |-> << <<"w">>, <<"I","n","c">>, <<"x",".","h">> >>,            dir |-> FALSE],
    [name |-> << <<"w">>, <<"I","n","c">>, <<"y",".","h">> >>,            dir |-> FALSE],
    [name |-> << <<"w">>, <<"S","r","c">> >>,                             dir |-> TRUE],
    [name |-> << <<"w">>, <<"S","r","c">>, <<"a",".","c","p","p">> >>,    dir |-> FALSE],
    [name |-> << <<"w">>, <<"S","r","c">>, <<"k",".","m">> >>,            dir |-> FALSE],
    [name |-> << <<"w">>, <<"S","r","c">>, <<"x",".","h">> >>,            dir |-> FALSE] >>

\* the lines of the tlog files C:\w\b\t1, C:\w\b\t2, ... of the build
TlogContents == <<
    \* t1:  ^C:\W\SRC\A.CPP
    \*      /c /IC:\W\INC /Zc:inline C:\W\SRC\A.CPP
    << <<"^","C",":","\\","W","\\","S","R","C","\\","A",".","C","P","P">>,
       <<"/","c"," ","/","I","C",":","\\","W","\\","I","N","C"," ","/","Z","c",":","i","n","l","i","n","e"," ","C",":","\\","W","\\","S","R","C","\\","A",".","C","P","P">> >>,
    \* t2:  /c C:\W\SRC\GONE.CPP
    \*      /c /I. C:\W\SRC\A.CPP
    \*      /c /W3 SRC\K.M
    << <<"/","c"," ","C",":","\\","W","\\","S","R","C","\\","G","O","N","E",".","C","P","P">>,
       <<"/","c"," ","/","I","."," ","C",":","\\","W","\\","S","R","C","\\","A",".","C","P","P">>,
       <<"/","c"," ","/","W","3"," ","S","R","C","\\","K",".","M">> >>,
    \* t3:  /c /I"C:\W\INC" C:\W\SRC\K.M
    \*      /c /W3 /IC:\W\INC C:\W\SRC\A.CPP
    << <<"/","c"," ","/","I","\"","C",":","\\","W","\\","I","N","C","\""," ","C",":","\\","W","\\","S","R","C","\\","K",".","M">>,
       <<"/","c"," ","/","W","3"," ","/","I","C",":","\\","W","\\","I","N","C"," ","C",":","\\","W","\\","S","R","C","\\","A",".","C","P","P">> >>,
    \* t4:  /c /IC:\W\SRC\K.M
    << <<"/","c"," ","/","I","C",":","\\","W","\\","S","R","C","\\","K",".","M">> >>,
    \* t5:  ^C:\W\SRC\K.H
    \*      /c C:\W\SRC\K.M
    \*      /c /W3 C:\W\SRC\A.cpp
    << <<"^","C",":","\\","W","\\","S","R","C","\\","K",".","H">>,
       <<"/","c"," ","C",":","\\","W","\\","S","R","C","\\","K",".","M">>,
       <<"/","c"," ","/","W","3"," ","C",":","\\","W","\\","S","R","C","\\","A",".","c","p","p">> >> >>

\* the name MSBuild gives the tracker log of the compiler's command lines
ClCommandTlog == <<"C","L",".","c","o","m","m","a","n","d",".","1",".","t","l","o","g">>

\* the build directory C:\w\build: tlog files two levels below Debug and
\* Rel, one level below Debug, a directory with the name of a tlog file and
\* a tlog file in it, and a tracker log of another name
BuildTree == <<
    [name |-> << <<"w">>, <<"b","u","i","l","d">> >>, dir |-> TRUE],
    [name |-> << <<"w">>, <<"b","u","i","l","d">>, <<"D","e","b","u","g">> >>, dir |-> TRUE],
    [name |-> << <<"w">>, <<"b","u","i","l","d">>, <<"D","e","b","u","g">>, ClCommandTlog >>, dir |-> FALSE],
    [name |-> << <<"w">>, <<"b","u","i","l","d">>, <<"D","e","b","u","g">>, <<"x","6","4">> >>, dir |-> TRUE],
    [name |-> << <<"w">>, <<"b","u","i","l","d">>, <<"D","e","b","u","g">>, <<"x","6","4">>, ClCommandTlog >>, dir |-> FALSE],
    [name |-> << <<"w">>, <<"b","u","i","l","d">>, <<"D","e","b","u","g">>, <<"x","6","4">>, <<"C","L",".","r","e","a","d",".","1",".","t","l","o","g">> >>, dir |-> FALSE],
    [name |-> << <<"w">>, <<"b","u","i","l","d">>, <<"p">> >>, dir |-> TRUE],
    [name |-> << <<"w">>, <<"b","u","i","l","d">>, <<"p">>, <<"D","e","b","u","g">> >>, dir |-> TRUE],
    [name |-> << <<"w">>, <<"b","u","i","l","d">>, <<"p">>, <<"D","e","b","u","g">>, ClCommandTlog >>, dir |-> TRUE],
    [name |-> << <<"w">>, <<"b","u","i","l","d">>, <<"p">>, <<"D","e","b","u","g">>, ClCommandTlog, ClCommandTlog >>, dir |-> FALSE],
    [name |-> << <<"w">>, <<"b","u","i","l","d">>, <<"R","e","l">> >>, dir |-> TRUE],
    [name |-> << <<"w">>, <<"b","u","i","l","d">>, <<"R","e","l">>, <<"x","6","4">> >>, dir |-> TRUE],
    [name |-> << <<"w">>, <<"b","u","i","l","d">>, <<"R","e","l">>, <<"x","6","4">>, ClCommandTlog >>, dir |-> FALSE] >>

\* the tlog file (of TlogContents) each CL.command.1.tlog of BuildTree holds
BuildTlogs == <<
    [name |-> << <<"w">>, <<"b","u","i","l","d">>, <<"D","e","b","u","g">>, <<"x","6","4">>, ClCommandTlog >>, holds |-> 1],
    [name |-> << <<"w">>, <<"b","u","i","l","d">>, <<"p">>, <<"D","e","b","u","g">>, ClCommandTlog, ClCommandTlog >>, holds |-> 3],
    [name |-> << <<"w">>, <<"b","u","i","l","d">>, <<"D","e","b","u","g">>, ClCommandTlog >>, holds |-> 2],
    [name |-> << <<"w">>, <<"b","u","i","l","d">>, <<"R","e","l">>, <<"x","6","4">>, ClCommandTlog >>, holds |-> 4] >>

TlogName(i) == << <<"w">>, <<"b">>, <<"t", Digits[i]>> >>
TlogTree == [i \in 1..Len(TlogContents) |-> [name |-> TlogName(i), dir |-> FALSE]]

Disk == SourceTree \o TlogTree \o BuildTree

toLower(string) == [i \in 1..Len(string) |-> tolower(string[i])]

SameNames(a, b) ==
    /\ Len(a) = Len(b)
    /\ \A k \in 1..Len(a) : toLower(a[k]) = toLower(b[k])

\* the filenames below C:\ that path s names, resolved as Windows resolves a
\* path before it looks it up: against the current directory unless rooted,
\* "." and ".." applied lexically
TargetNames(s) ==
    NormalNames(Components(s, RelativeStart(s)),
                IF HasRootDirectory(s) THEN <<>> ELSE Cwd, TRUE)

\* the index in Disk of the entry with the filenames `names`, 0 when none
DiskIndex(names) ==
    LET hits == {i \in 1..Len(Disk) : SameNames(Disk[i].name, names)}
    IN  IF hits = {} THEN 0 ELSE Min(hits)

NotFound == [found |-> FALSE, dir |-> FALSE, names |-> <<>>]

\* a path that ends with a separator names a directory only
StatEntry(s, k) ==
    IF k = 0 \/ (IsSlash(s[Len(s)]) /\ ~Disk[k].dir) THEN NotFound
    ELSE [found |-> TRUE, dir |-> Disk[k].dir, names |-> Disk[k].name]

\* what the disk holds at path s: [found, dir, names (on-disk casing)]
Stat(s) ==
    IF s = <<>> \/ (HasRootName(s) /\ tolower(s[1]) # "c") THEN NotFound
    ELSE StatEntry(s, DiskIndex(TargetNames(s)))

\* fs::exists, fs::is_directory
Exists(s) == Stat(s).found
IsDirectory(s) == Stat(s).dir

\* the paths of the entries of the directory with the filenames `at`
EntriesBelow(s, at) ==
    LET IsChild(n) == Len(n.name) = Len(at) + 1 /\ SubSeq(n.name, 1, Len(at)) = at
        children == SelectSeq(Disk, IsChild)
    IN  [i \in 1..Len(children) |-> PathJoin(s, children[i].name[Len(at) + 1])]

\* fs::directory_iterator{s}: the paths of the entries of directory s
DirectoryIterator(s) == EntriesBelow(s, Stat(s).names)

---------------------------------------------------------------------------
(* Result<T, std::runtime_error>                                           *)

Ok(v) == [ok |-> TRUE, value |-> v]
Err(e) == [ok |-> FALSE, error |-> e]

---------------------------------------------------------------------------
(* The accessors of Result                                                 *)
(*                                                                         *)
(* m_data is the std::variant<TResult, TException>: Ok(v) holds the first *)
(* alternative, Err(e) the second.  A call returns or throws.              *)

Gives(x) == [threw |-> "", ret |-> x]
BadResultAccess(message) ==
    [threw |-> "BadResultAccess", what |-> "Bad variant access: " \o message]

\* m_data.index()
Index(data) == IF data.ok THEN 0 ELSE 1

isOk(data) == Index(data) = 0
isErr(data) == Index(data) = 1

\* value() returning a default-constructed TResult from an error result
GetValueOrDefault(data) ==
    IF isErr(data) THEN Gives(0) ELSE Gives(data.value)

\* value()
GetValue(data) ==
    IF isErr(data) THEN BadResultAccess("Tried to get value on an error result")
    ELSE Gives(data.value)

\* error()
GetError(data) ==
    IF isOk(data) THEN BadResultAccess("Tried to get error on an value result")
    ELSE Gives(data.error)

\* operator*, operator-> (the value it points to), operator bool
Deref(data) == GetValue(data)
Arrow(data) == GetValue(data)
ToBool(data) == isOk(data)

---------------------------------------------------------------------------
(* detail::getCorrectCasingForPath                                         *)

\* the iterator of isDriveRoot as a count of the elements passed: one step over
\* the root name, one more over the root directory, and then at the end or not
AtEndAfterRoot(rootDirectory, size) ==
    /\ size # 0
    /\ size = IF rootDirectory /\ size # 1 THEN 2 ELSE 1

\* the lambda isDriveRoot
isDriveRoot(path) ==
    /\ HasRootName(path)
    /\ AtEndAfterRoot(HasRootDirectory(path), Len(Elements(path)))

\* the entries of `parent` whose filename is `filename` but for case
MatchingEntries(parent, filename) ==
    LET Matches(entry) == toLower(Filename(entry)) = toLower(filename)
    IN  SelectSeq(DirectoryIterator(parent), Matches)

\* *res / entry.path().filename(), or the error of res
JoinCasing(res, filename) ==
    IF res.ok THEN Ok(PathJoin(res.value, filename)) ELSE res

RECURSIVE getCorrectCasingForPath(_)

\* lines 224-242: the loop returns at the first entry that matches
CasingFromEntries(parent, found) ==
    IF found = <<>> THEN Err("NoCaseMatch")
    ELSE JoinCasing(getCorrectCasingForPath(parent), Filename(found[1]))

\* getCorrectCasingForPath without the check of lines 211-213 that the path
\* exists
getCorrectCasingForPathUnchecked(filePath) ==
    IF isDriveRoot(filePath) \/ ~HasParentPath(filePath) THEN Ok(filePath)
    ELSE IF ~IsDirectory(ParentPath(filePath)) THEN Err("ParentMissing")
    ELSE CasingFromEntries(ParentPath(filePath),
             MatchingEntries(ParentPath(filePath), Filename(filePath)))

getCorrectCasingForPath(filePath) ==
    IF ~Exists(filePath) THEN Err("PathNotFound")
    ELSE IF isDriveRoot(filePath) \/ ~HasParentPath(filePath) THEN Ok(filePath)
    ELSE IF ~IsDirectory(ParentPath(filePath)) THEN Err("ParentMissing")
    ELSE CasingFromEntries(ParentPath(filePath),
             MatchingEntries(ParentPath(filePath), Filename(filePath)))

---------------------------------------------------------------------------
(* detail::getFileEncoding and detail::readFileLines                       *)

xFF == "FF"
xFE == "FE"
x00 == "00"

\* static_cast<unsigned char>(std::char_traits<char>::eof()), eof() being -1
EofByte == xFF

\* std::istream::get: the next byte, or eof() and a failed stream at the end;
\* nothing is read from a stream that has already failed
StreamGet(st) ==
    IF ~st.good THEN [c |-> EofByte, st |-> st]
    ELSE IF st.pos >= Len(st.bytes)
    THEN [c |-> EofByte, st |-> [st EXCEPT !.good = FALSE]]
    ELSE [c |-> At(st.bytes, st.pos), st |-> [st EXCEPT !.pos = st.pos + 1]]

\* returns the encoding and the stream as it is left
getFileEncoding(st) ==
    LET g1 == StreamGet(st)
        g2 == StreamGet(g1.st)
        first == g1.c
        second == g2.c
    IN  IF first = xFF /\ second = xFE
        THEN [encoding |-> "Utf16LittleEndian", st |-> g2.st]
        ELSE IF first = xFE /\ second = xFF
        THEN [encoding |-> "Utf16BigEndian", st |-> g2.st]
        ELSE \* stream.clear(); stream.seekg(0, std::ios::beg)
             [encoding |-> "Utf8", st |-> [g2.st EXCEPT !.good = TRUE, !.pos = 0]]

\* string | std::views::split('\n'), for a string that is not empty
RECURSIVE SplitPieces(_)
SplitPieces(string) ==
    LET nl == Find(string, <<"\n">>, 0)
    IN  IF nl = Npos THEN <<string>>
        ELSE <<SubSeq(string, 1, nl)>> \o SplitPieces(SubstrFrom(string, nl + 1))

\* the lambda getLines
getLines(string) ==
    LET pieces == IF string = <<>> THEN <<>> ELSE SplitPieces(string)
    IN  [i \in 1..Len(pieces) |->
            IF EndsWith(pieces[i], <<"\r">>)
            THEN Substr(pieces[i], 0, Len(pieces[i]) - 1) ELSE pieces[i]]

\* contents[i], contents[i + 2], ...
RECURSIVE EverySecond(_, _)
EverySecond(contents, i) ==
    IF i < Len(contents) THEN <<At(contents, i)>> \o EverySecond(contents, i + 2)
    ELSE <<>>

\* lines 290-300: the rest of the stream is read and decoded as `enc` says
ReadDetected(enc) ==
    LET \* readStream << stream.rdbuf(): the buffer from its read position
        contents == SubstrFrom(enc.st.bytes, enc.st.pos)
    IN  [result |-> Ok(getLines(
                        IF enc.encoding = "Utf8" THEN contents
                        ELSE EverySecond(contents,
                                 IF enc.encoding = "Utf16LittleEndian" THEN 0 ELSE 1))),
         st |-> [enc.st EXCEPT !.pos = Len(enc.st.bytes)]]

\* readFileLines without the test of the stream in lines 265-267
readFileLinesUnchecked(st) == ReadDetected(getFileEncoding(st))

\* returns the Result and the stream as it is left
readFileLines(st) ==
    IF ~st.good THEN [result |-> Err("Invalid file stream"), st |-> st]
    ELSE ReadDetected(getFileEncoding(st))

---------------------------------------------------------------------------
(* detail::findIncludePaths                                                *)

SlashI == <<"/","I">>

\* while (pos < command.size() && std::isspace(command[pos])) pos++
RECURSIVE SkipSpaces(_, _)
SkipSpaces(command, pos) ==
    IF pos < Len(command) /\ isspace(At(command, pos))
    THEN SkipSpaces(command, pos + 1) ELSE pos

\* the Result of a call that never returns
Diverges == Err("never returns")

\* the while loop, entered with `pos` and the paths found so far
RECURSIVE FindIncludePathsFrom(_, _, _)
FindIncludePathsFrom(command, pos0, includePaths) ==
    LET hit == Find(command, SlashI, pos0)
        pos == SkipSpaces(command, hit + 2)
        usesQuotes == At(command, pos) = "\""
        start == IF usesQuotes THEN pos + 1 ELSE pos
        end == Find(command, IF usesQuotes THEN <<"\"">> ELSE <<" ">>, start)
    IN  IF hit = Npos THEN Ok(includePaths)
        ELSE IF pos = Len(command) THEN Err("MalformedInclude: no path given")
        ELSE IF usesQuotes /\ end = Npos THEN Err("MalformedInclude: unterminated quote")
        ELSE IF end = Npos
        \* pos = end + 1 is npos + 1 = 0: the scan starts over from the first
        \* /I and comes back here, adding paths until memory runs out
        THEN Diverges
        ELSE FindIncludePathsFrom(command, end + 1,
                 Append(includePaths, Substr(command, start, end - start)))

\* findIncludePaths keeping one copy of a path that is given twice
RECURSIVE FindIncludePathsOnceFrom(_, _, _)
FindIncludePathsOnceFrom(command, pos0, includePaths) ==
    LET hit == Find(command, SlashI, pos0)
        pos == SkipSpaces(command, hit + 2)
        usesQuotes == At(command, pos) = "\""
        start == IF usesQuotes THEN pos + 1 ELSE pos
        end == Find(command, IF usesQuotes THEN <<"\"">> ELSE <<" ">>, start)
        includePath == Substr(command, start, end - start)
    IN  IF hit = Npos THEN Ok(includePaths)
        ELSE IF pos = Len(command) THEN Err("MalformedInclude: no path given")
        ELSE IF usesQuotes /\ end = Npos THEN Err("MalformedInclude: unterminated quote")
        ELSE IF end = Npos THEN Diverges
        ELSE FindIncludePathsOnceFrom(command, end + 1,
                 IF \E k \in 1..Len(includePaths) : includePaths[k] = includePath
                 THEN includePaths ELSE Append(includePaths, includePath))

findIncludePathsOnce(command) == FindIncludePathsOnceFrom(command, 0, <<>>)

\* findIncludePaths without the tests of lines 317-319 and 327-329: a path
\* that is missing is empty, a quoted path that is not closed runs to the end
RECURSIVE FindIncludePathsLaxFrom(_, _, _)
FindIncludePathsLaxFrom(command, pos0, includePaths) ==
    LET hit == Find(command, SlashI, pos0)
        pos == SkipSpaces(command, hit + 2)
        usesQuotes == pos < Len(command) /\ At(command, pos) = "\""
        start == IF usesQuotes THEN pos + 1 ELSE pos
        end == Find(command, IF usesQuotes THEN <<"\"">> ELSE <<" ">>, start)
    IN  IF hit = Npos THEN Ok(includePaths)
        ELSE IF pos = Len(command) \/ (usesQuotes /\ end = Npos)
        THEN Ok(Append(includePaths, SubstrFrom(command, start)))
        ELSE IF end = Npos THEN Diverges
        ELSE FindIncludePathsLaxFrom(command, end + 1,
                 Append(includePaths, Substr(command, start, end - start)))

findIncludePathsLax(command) == FindIncludePathsLaxFrom(command, 0, <<>>)

findIncludePaths(command) == FindIncludePathsFrom(command, 0, <<>>)

---------------------------------------------------------------------------
(* findTlogFiles                                                           *)
(*                                                                         *)
(* `unlistable` holds the directories fs::directory_iterator cannot open:  *)
(* its constructor throws fs::filesystem_error for them.                   *)

RECURSIVE findTlogFiles(_, _, _)
RECURSIVE WalkEntries(_, _, _, _)

\* TlogFilesWith comparing the parent directory, not the grandparent
TlogFilesWithParent(tlogFiles, path, config) ==
    IF /\ Filename(ParentPath(path)) = config
       /\ Filename(path) = ClCommandTlog
    THEN Append(tlogFiles, path) ELSE tlogFiles

\* lines 57-61: an entry that is no directory
TlogFilesWith(tlogFiles, path, config) ==
    IF /\ Filename(ParentPath(ParentPath(path))) = config
       /\ Filename(path) = ClCommandTlog
    THEN Append(tlogFiles, path) ELSE tlogFiles

\* lines 47-55: the files of a directory below, or its error
WalkInner(innerFiles, entries, config, unlistable, tlogFiles) ==
    IF ~innerFiles.ok THEN innerFiles
    ELSE WalkEntries(entries, config, unlistable, tlogFiles \o innerFiles.value)

\* lines 43-63: the loop over the entries that are left
WalkEntries(entries, config, unlistable, tlogFiles) ==
    IF entries = <<>> THEN Ok(tlogFiles)
    ELSE IF IsDirectory(Head(entries))
    THEN WalkInner(findTlogFiles(Head(entries), config, unlistable),
                   Tail(entries), config, unlistable, tlogFiles)
    ELSE WalkEntries(Tail(entries), config, unlistable,
                     TlogFilesWith(tlogFiles, Head(entries), config))

\* findTlogFiles that walks a path that is no directory as an empty one
findTlogFilesAnywhere(buildDir, config, unlistable) ==
    IF ~IsDirectory(buildDir) THEN Ok(<<>>)
    ELSE IF Stat(buildDir).names \in unlistable
    THEN Err(<<"Failed to iterator through directory", buildDir>>)
    ELSE WalkEntries(DirectoryIterator(buildDir), config, unlistable, <<>>)

findTlogFiles(buildDir, config, unlistable) ==
    IF ~IsDirectory(buildDir)
    THEN Err(<<"Couldn't open build directory", buildDir>>)
    ELSE IF Stat(buildDir).names \in unlistable
    \* lines 64-66: the exception of the directory iterator, caught
    THEN Err(<<"Failed to iterator through directory", buildDir>>)
    ELSE WalkEntries(DirectoryIterator(buildDir), config, unlistable, <<>>)

---------------------------------------------------------------------------
(* The files of the disk as streams                                        *)

RECURSIVE JoinWith(_, _)
JoinWith(ls, sep) ==
    IF ls = <<>> THEN <<>>
    ELSE IF Len(ls) = 1 THEN ls[1]
    ELSE ls[1] \o sep \o JoinWith(Tail(ls), sep)

\* UTF-16 LE with a byte order mark and CR LF between lines, as MSBuild writes
EncodeUtf16Le(ls) ==
    LET text == JoinWith(ls, <<"\r","\n">>)
    IN  <<xFF, xFE>> \o [i \in 1..(2 * Len(text)) |->
                            IF i % 2 = 1 THEN text[(i + 1) \div 2] ELSE x00]

\* UTF-8 without a byte order mark, LF between lines
EncodeUtf8(ls) == JoinWith(ls, <<"\n">>)

\* the tlog file the file named `names` holds, 0 when it is no tlog file
TlogIndex(names) ==
    LET own == {i \in 1..Len(TlogContents) : names = TlogName(i)}
        built == {k \in 1..Len(BuildTlogs) : names = BuildTlogs[k].name}
    IN  IF own # {} THEN Min(own)
        ELSE IF built # {} THEN BuildTlogs[Min(built)].holds
        ELSE 0

IsTlog(names) == TlogIndex(names) # 0

\* the bytes of a tlog file: the first is UTF-16 LE, the others UTF-8
TlogBytes(i) ==
    IF i = 1 THEN EncodeUtf16Le(TlogContents[i]) ELSE EncodeUtf8(TlogContents[i])

\* the bytes of the file named `names`: a tlog file, a tracker log of
\* another name (empty), or a source holding the lines the environment
\* gives it
FileBytes(names) ==
    IF IsTlog(names) THEN TlogBytes(TlogIndex(names))
    ELSE IF names \in DOMAIN env.content THEN EncodeUtf8(env.content[names])
    ELSE <<>>

StreamOf(st) ==
    IF st.found /\ ~st.dir
    THEN [bytes |-> FileBytes(st.names), pos |-> 0, good |-> TRUE]
    ELSE [bytes |-> <<>>, pos |-> 0, good |-> FALSE]

\* std::ifstream{path, std::ios::binary}
OpenStream(path) == StreamOf(Stat(path))

---------------------------------------------------------------------------
(* createCompileCommands: the commands of the sources                      *)

Extensions == << <<".","C">>, <<".","C","C">>, <<".","C","P","P">>,
                 <<".","C","X","X">>, <<".","M">>, <<".","M","M">> >>
ClExe == <<"c","l",".","e","x","e"," ">>
SlashC == <<"/","c">>

\* the build directory the tests pass: "build"
BuildDir == <<"b","u","i","l","d">>

CompileCommand(directory, command, file) ==
    [directory |-> directory, command |-> command, file |-> file]

HasFile(commands, file) == \E i \in 1..Len(commands) : commands[i].file = file

\* SourceCommandFor without the check of lines 123-125 for an earlier entry of
\* the same file
SourceCommandForNoDedupe(commands, line, i, correctCasing) ==
    IF ~correctCasing.ok THEN Ok(commands)
    ELSE Ok(Append(commands,
            CompileCommand(BuildDir,
                ClExe \o Replace(line, i, Len(line) - i, correctCasing.value),
                correctCasing.value)))

\* lines 115-134: the command of the source whose path starts at position i
SourceCommandFor(commands, line, i, correctCasing) ==
    IF ~correctCasing.ok THEN Ok(commands)   \* logWarning
    ELSE IF HasFile(commands, correctCasing.value) THEN Ok(commands)
    ELSE Ok(Append(commands,
            CompileCommand(BuildDir,
                ClExe \o Replace(line, i, Len(line) - i, correctCasing.value),
                correctCasing.value)))

\* SourceCommandAt with the scan stopping at the first drive letter of the
\* line in the place of the last
SourceCommandAtFirst(commands, line, drives) ==
    IF drives = {} THEN Ok(commands)
    ELSE SourceCommandFor(commands, line, Min(drives),
             getCorrectCasingForPath(SubstrFrom(line, Min(drives))))

\* lines 110-138: the scan from line.size() - 2 down to 1 stops at the last
\* letter that a colon follows; `drives` are all such positions
SourceCommandAt(commands, line, drives) ==
    IF drives = {} THEN Ok(commands)
    ELSE SourceCommandFor(commands, line, Max(drives),
             getCorrectCasingForPath(SubstrFrom(line, Max(drives))))

\* SourceCommandStep without the test of lines 95-103 for an extension
SourceCommandStepAnyEnd(commands, line) ==
    IF ~StartsWith(line, SlashC) THEN Ok(commands)
    ELSE SourceCommandAt(commands, line,
             {i \in 1..(Len(line) - 2) :
                 isalpha(At(line, i)) /\ At(line, i + 1) = ":"})

\* the body of the loop over the lines of a tlog file: the commands after `line`
SourceCommandStep(commands, line) ==
    IF ~StartsWith(line, SlashC) THEN Ok(commands)
    ELSE IF \A k \in 1..Len(Extensions) : ~EndsWith(line, Extensions[k])
    THEN Err("NotASourceCommand")
    ELSE SourceCommandAt(commands, line,
             {i \in 1..(Len(line) - 2) :
                 isalpha(At(line, i)) /\ At(line, i + 1) = ":"})

\* SourceWarningAt with a warning for a line in which the scan finds no
\* drive letter
SourceWarningAtNoDrive(line, drives) ==
    IF drives = {} THEN <<[fileName |-> <<>>, line |-> line, what |-> ""]>>
    ELSE IF getCorrectCasingForPath(SubstrFrom(line, Max(drives))).ok THEN <<>>
    ELSE <<[fileName |-> SubstrFrom(line, Max(drives)), line |-> line,
            what |-> getCorrectCasingForPath(SubstrFrom(line, Max(drives))).error]>>

\* lines 110-138, the calls of logWarning: the one call is in the else
\* branch of line 132, for the path at the last drive letter when it cannot
\* be case-corrected; a scan that finds no drive letter makes none
SourceWarningAt(line, drives) ==
    IF drives = {} THEN <<>>
    ELSE IF getCorrectCasingForPath(SubstrFrom(line, Max(drives))).ok THEN <<>>
    ELSE <<[fileName |-> SubstrFrom(line, Max(drives)), line |-> line,
            what |-> getCorrectCasingForPath(SubstrFrom(line, Max(drives))).error]>>

\* the body of the loop over the lines of a tlog file: the warnings `line`
\* gives; a line that is skipped or that ends the call with an error is not
\* scanned
SourceWarningStep(line) ==
    IF ~StartsWith(line, SlashC) THEN <<>>
    ELSE IF \A k \in 1..Len(Extensions) : ~EndsWith(line, Extensions[k])
    THEN <<>>
    ELSE SourceWarningAt(line,
             {i \in 1..(Len(line) - 2) :
                 isalpha(At(line, i)) /\ At(line, i + 1) = ":"})

---------------------------------------------------------------------------
(* detail::createCompileCommandsForHeaders                                 *)

Include == <<"#","i","n","c","l","u","d","e">>
Import == <<"#","i","m","p","o","r","t">>

IsBlank(c) == c \in {" ", "\t"}

\* std::string_view{const char*}: the characters before the first NUL
CString(s) ==
    LET nuls == {i \in 0..(Len(s) - 1) : At(s, i) = x00}
    IN  IF nuls = {} THEN s ELSE Substr(s, 0, Min(nuls))

\* the line from its first character that is neither a space nor a tab
TrimLeft(line) ==
    LET inked == {i \in 0..(Len(line) - 1) : ~IsBlank(At(line, i))}
    IN  IF inked = {} THEN line ELSE CString(SubstrFrom(line, Min(inked)))

RECURSIVE SkipBlanks(_, _)
SkipBlanks(l, start) ==
    IF start < Len(l) /\ IsBlank(At(l, start)) THEN SkipBlanks(l, start + 1) ELSE start

\* the process ended by abort(): a library built to check the index of
\* operator[] calls it for an index that is not below the size
Aborts == Err("abort")

\* l[start].  With start = l.size() the behaviour is undefined: the build
\* reads the terminator of the line's std::string, or, `checked`, aborts
CharAt(l, start, checked) ==
    IF start < Len(l) THEN Ok(At(l, start))
    ELSE IF checked THEN Aborts
    ELSE Ok(x00)

\* lines 434-448: the name between the quotes or the angle brackets, c being
\* l[start]
IncludedFileAt(l, start, end, c) ==
    IF ~c.ok THEN c
    ELSE IF c.value \in {"\"", "<"} /\ end # Npos
    THEN Ok(<<[filePath |-> Substr(l, start + 1, end - (start + 1)),
               usesQuotes |-> c.value = "\""]>>)
    ELSE Ok(<<>>)

\* lines 429-433: the first character after the directive and the blanks
IncludedFileFrom(l, start, checked) ==
    IncludedFileAt(l, start,
        Find(l, IF start < Len(l) /\ At(l, start) = "\"" THEN <<"\"">> ELSE <<">">>,
             start + 1),
        CharAt(l, start, checked))

\* line 425
IncludedFileIn(l, isObjC, checked) ==
    IF l = <<>> \/ ~StartsWith(l, Include) \/ (isObjC /\ ~StartsWith(l, Import))
    THEN Ok(<<>>)
    ELSE IncludedFileFrom(l, SkipBlanks(l, IF StartsWith(l, Include) THEN 8 ELSE 7),
                          checked)

\* the included file a line names: none or one IncludedFile, or the abort
IncludedFileOf(line, isObjC, checked) == IncludedFileIn(TrimLeft(line), isObjC, checked)

\* lines 416-449 from the line Head(ls) on; `acc` holds includedFiles, to
\* which the file of each line is added
RECURSIVE IncludedFilesFrom(_, _, _, _)
IncludedFilesFrom(ls, isObjC, checked, acc) ==
    IF ~acc.ok \/ ls = <<>> THEN acc
    ELSE LET includedFile == IncludedFileOf(Head(ls), isObjC, checked)
         IN  IncludedFilesFrom(Tail(ls), isObjC, checked,
                 IF ~includedFile.ok THEN includedFile
                 ELSE Ok(acc.value \o includedFile.value))

\* lines 413-449: the included files of the lines, or the abort
IncludedFiles(ls, isObjC, checked) == IncludedFilesFrom(ls, isObjC, checked, Ok(<<>>))

\* lines 368-392: the command of the header `headerPath`
HeaderCommand(headerPath, fileNamePos, sourceFile, command, all, headers) ==
    IF HasFile(all, headerPath) \/ HasFile(headers, headerPath) THEN Ok(headers)
    ELSE IF fileNamePos = Npos THEN Err("std::out_of_range")
    ELSE Ok(Append(headers,
            CompileCommand(BuildDir,
                Replace(command, fileNamePos, Len(sourceFile), headerPath),
                headerPath)))

\* HeaderCommandCased with the warning of the source stage in the place of
\* the return of line 365
HeaderCommandCasedOrSkipped(correctCasing, sourceFile, command, all, headers) ==
    IF ~correctCasing.ok THEN Ok(headers)
    ELSE HeaderCommand(correctCasing.value, Find(command, sourceFile, 0),
                       sourceFile, command, all, headers)

\* lines 363-366
HeaderCommandCased(correctCasing, sourceFile, command, all, headers) ==
    IF ~correctCasing.ok THEN Err(correctCasing.error)
    ELSE HeaderCommand(correctCasing.value, Find(command, sourceFile, 0),
                       sourceFile, command, all, headers)

\* lines 358-363
HeaderCommandAt(filePath, sourceFile, command, all, headers) ==
    IF ~Exists(filePath) THEN Ok(headers)
    ELSE HeaderCommandCased(getCorrectCasingForPath(filePath),
                            sourceFile, command, all, headers)

\* the lambda createCompileCommand: the header commands after it ran, or its
\* error
createCompileCommand(includePath, includedFile, sourceFile, command, all, headers) ==
    HeaderCommandAt(LexicallyNormal(PathJoin(includePath, includedFile)),
                    sourceFile, command, all, headers)

\* one included file tried on each of `paths`; `res` holds the header commands
\* so far, or the error that ended the call
RECURSIVE TryPaths(_, _, _, _, _, _)
TryPaths(paths, includedFile, sourceFile, command, all, res) ==
    IF ~res.ok \/ paths = <<>> THEN res
    ELSE TryPaths(Tail(paths), includedFile, sourceFile, command, all,
             createCompileCommand(Head(paths), includedFile, sourceFile,
                                  command, all, res.value))

\* lines 464-475: for a quoted include the directory of the source, then every
\* include path
PathsToTry(includedFile, sourceFile, includePaths) ==
    (IF includedFile.usesQuotes THEN <<ParentPath(sourceFile)>> ELSE <<>>)
    \o includePaths

\* the loop over includedFiles
RECURSIVE TryIncludedFiles(_, _, _, _, _, _)
TryIncludedFiles(includedFiles, includePaths, sourceFile, command, all, res) ==
    IF ~res.ok \/ includedFiles = <<>> THEN res
    ELSE TryIncludedFiles(Tail(includedFiles), includePaths, sourceFile, command, all,
             TryPaths(PathsToTry(Head(includedFiles), sourceFile, includePaths),
                      Head(includedFiles).filePath, sourceFile, command, all, res))

\* lines 451-476, once the include paths of the command are known
HeadersOnPaths(includedFiles, includePaths, sourceFile, command, all, headers) ==
    IF ~includePaths.ok THEN includePaths
    ELSE TryIncludedFiles(includedFiles, includePaths.value, sourceFile, command,
                          all, Ok(headers))

\* lines 451-476, once the lines are scanned
HeadersOfIncluded(included, sourceFile, command, all, headers) ==
    IF ~included.ok THEN included
    ELSE HeadersOnPaths(included.value, findIncludePaths(command),
                        sourceFile, command, all, headers)

\* lines 403-476, once the file is read
HeadersInLines(fileRead, sourceFile, command, all, headers, checked) ==
    IF ~fileRead.ok THEN fileRead
    ELSE HeadersOfIncluded(
             IncludedFiles(fileRead.value, EndsWith(sourceFile, <<"m">>), checked),
             sourceFile, command, all, headers)

\* the body of the loop over compileCommandsToCheck
HeadersOfFile(sourceFile, command, all, headers, checked) ==
    HeadersInLines(readFileLines(OpenStream(sourceFile)).result,
                   sourceFile, command, all, headers, checked)

\* the loop over compileCommandsToCheck; `acc` holds the Result so far and the
\* files opened so far
RECURSIVE HeadersOf(_, _, _, _)
HeadersOf(toCheck, all, acc, checked) ==
    IF ~acc.res.ok \/ toCheck = <<>> THEN acc
    ELSE HeadersOf(Tail(toCheck), all,
             [res |-> HeadersOfFile(Head(toCheck).file, Head(toCheck).command,
                                    all, acc.res.value, checked),
              opened |-> acc.opened \cup {Head(toCheck).file}],
             checked)

\* returns the Result and the files it opened
createCompileCommandsForHeaders(compileCommandsToCheck, allCompileCommands, checked) ==
    HeadersOf(compileCommandsToCheck, allCompileCommands,
              [res |-> Ok(<<>>), opened |-> {}], checked)

-----
(* main.cpp: the driver, with its own createCompileCommands                *)

\* std::istream::get as main.cpp uses it: the int it returns is compared,
\* so the end of the stream is no byte
IntGet(st) ==
    IF ~st.good \/ st.pos >= Len(st.bytes)
    THEN [c |-> "EOF", st |-> [st EXCEPT !.good = FALSE]]
    ELSE [c |-> At(st.bytes, st.pos), st |-> [st EXCEPT !.pos = st.pos + 1]]

\* std::istream::unget: nothing is put back into a stream that has failed
Unget(st) ==
    IF ~st.good THEN st
    ELSE IF st.pos = 0 THEN [st EXCEPT !.good = FALSE]
    ELSE [st EXCEPT !.pos = st.pos - 1]

\* main.cpp lines 329-339: the lambda `encoding`; && reads its second byte
\* only when the first one matched
MainEncoding(st) ==
    LET g1 == IntGet(st)
        g2 == IntGet(g1.st)
        after == IF g1.c = xFF THEN g2.st ELSE g1.st
        g3 == IntGet(after)
        g4 == IntGet(g3.st)
    IN  IF g1.c = xFF /\ g2.c = xFE
        THEN [encoding |-> "Utf16LittleEndian", st |-> g2.st]
        ELSE IF g3.c = xFE /\ g4.c = xFF
        THEN [encoding |-> "Utf16BigEndian", st |-> g4.st]
        ELSE [encoding |-> "NotUtf16",
              st |-> Unget(Unget(IF g3.c = xFE THEN g4.st ELSE g3.st))]

\* main.cpp lines 345-362: the lambda getLines, which splits at CR LF
RECURSIVE MainGetLines(_, _)
MainGetLines(string, posStart) ==
    LET posEnd == Find(string, <<"\r","\n">>, posStart)
    IN  IF posEnd = Npos THEN <<SubstrFrom(string, posStart)>>
        ELSE <<Substr(string, posStart, posEnd - posStart)>>
                 \o MainGetLines(string, posEnd + 2)

\* main.cpp lines 341-387: the rest of the buffer, decoded and split
MainDecoded(enc) ==
    MainGetLines(
        IF enc.encoding = "NotUtf16" THEN SubstrFrom(enc.st.bytes, enc.st.pos)
        ELSE EverySecond(SubstrFrom(enc.st.bytes, enc.st.pos),
                         IF enc.encoding = "Utf16LittleEndian" THEN 0 ELSE 1),
        0)

\* main.cpp lines 328-388: the lambda readLines
MainReadLines(st) == MainDecoded(MainEncoding(st))

\* main.cpp lines 390-392
MainExtensions == { <<".","C">>, <<".","C","C">>, <<".","C","P","P">>, <<".","C","X","X">> }

\* line.find_last_of(' ')
FindLastOf(line, c) ==
    IF \E i \in 1..Len(line) : line[i] = c
    THEN Max({i \in 1..Len(line) : line[i] = c}) - 1 ELSE Npos

\* main.cpp lines 406-443: one line of a tlog file; substr(npos) throws
\* std::out_of_range, which nothing catches
MainLine(buildDir, commands, line) ==
    IF ~StartsWith(line, SlashC) THEN Ok(commands)
    ELSE IF \A extension \in MainExtensions : ~EndsWith(line, extension)
    THEN Err("Command did not end with source file")
    ELSE IF FindLastOf(line, " ") = Npos THEN Err("std::terminate")
    ELSE Ok(Append(commands,
                   CompileCommand(buildDir, ClExe \o line,
                                  SubstrFrom(line, FindLastOf(line, " ")))))

RECURSIVE MainLines(_, _, _)
MainLines(buildDir, ls, r) ==
    IF ~r.ok \/ ls = <<>> THEN r
    ELSE MainLines(buildDir, Tail(ls), MainLine(buildDir, r.value, Head(ls)))

\* main.cpp lines 396-404: one tlog file, opened
MainFile(buildDir, st, commands) ==
    IF ~st.good THEN Err("Failed to open file")
    ELSE MainLines(buildDir, MainReadLines(st), Ok(commands))

\* main.cpp lines 318-448: the driver's createCompileCommands, entered with
\* the tlog files that are left and the commands so far
RECURSIVE MainCreateCompileCommands(_, _, _)
MainCreateCompileCommands(buildDir, tlogFiles, r) ==
    IF ~r.ok \/ tlogFiles = <<>> THEN r
    ELSE MainCreateCompileCommands(buildDir, Tail(tlogFiles),
             MainFile(buildDir, OpenStream(Head(tlogFiles)), r.value))

ConfigFlags == { <<"-","-","c","o","n","f","i","g">>, <<"-","c">> }
BuildDirFlags == { <<"-","-","b","u","i","l","d","-","d","i","r">>, <<"-","b","d">> }
VerboseFlags == { <<"-","-","v","e","r","b","o","s","e">>, <<"-","v">> }
HelpFlags == { <<"-","-","h","e","l","p">>, <<"-","h">> }

\* main.cpp lines 200-224: the loop over argv from argv[i] on; an argument
\* that is none of the flags falls through the chain of ifs
RECURSIVE ParseArgv(_, _, _)
ParseArgv(a, i, parsed) ==
    IF i > Len(a) THEN parsed
    ELSE IF a[i] \in ConfigFlags
    THEN IF i = Len(a) THEN [parsed EXCEPT !.returned = TRUE, !.status = 0 - 1]
         ELSE ParseArgv(a, i + 2, [parsed EXCEPT !.config = a[i + 1]])
    ELSE IF a[i] \in BuildDirFlags
    THEN IF i = Len(a) THEN [parsed EXCEPT !.returned = TRUE, !.status = 0 - 1]
         ELSE ParseArgv(a, i + 2, [parsed EXCEPT !.buildDir = a[i + 1]])
    ELSE IF a[i] \in VerboseFlags
    THEN ParseArgv(a, i + 1, [parsed EXCEPT !.verbose = TRUE])
    ELSE IF a[i] \in HelpFlags
    THEN [parsed EXCEPT !.returned = TRUE, !.status = 0]
    ELSE ParseArgv(a, i + 1, parsed)

\* fs::current_path()
CurrentPath == <<"C",":">> \o JoinWith([i \in 1..Len(Cwd) |-> <<Sep>> \o Cwd[i]], <<>>)

---------------------------------------------------------------------------
(* Idle values of the variables a specification does not use              *)

PipelineIdle ==
    /\ env = <<>> /\ pc = "idle" /\ tlogIdx = 0 /\ lines = <<>> /\ lineIdx = 0
    /\ compileCommands = <<>> /\ additionalCommands = <<>> /\ error = ""
    /\ opened = {} /\ warnings = <<>>
CasingIdle == casingPath = <<>> /\ casingResult = <<>>
ReaderIdle == streamIn = <<>> /\ stream = <<>> /\ encoding = "none" /\ fileLines = <<>>
IncludeIdle == cmdLine = <<>> /\ pathsFound = <<>>
WalkIdle == walk = <<>> /\ foundTlogs = <<>>
ResultIdle == m_data = <<>> /\ accessed = <<>>
DriverIdle == argv = <<>> /\ mainState = <<>>
UnitIdle == IncludeIdle /\ WalkIdle /\ ResultIdle /\ DriverIdle

---------------------------------------------------------------------------
(* SpecCasing: getCorrectCasingForPath applied to a path, to its own       *)
(* result, and to the path in upper case                                   *)

MaxPathDepth == 3

SeqsUpTo(S, n) == UNION {[1..k -> S] : k \in 0..n}

CasingRoots == { <<>>, <<"C",":","\\">>, <<"c",":","\\">> }
CasingNames == { <<"w">>, <<"S","r","c">>, <<"s","r","c">>,
                 <<"a",".","c","p","p">>, <<".",".">>, <<"n","o">> }

\* the paths: a root, up to MaxPathDepth filenames, a slash at the end or not
CasingPaths ==
    { root \o JoinNames(names) \o tail :
        root \in CasingRoots, names \in SeqsUpTo(CasingNames, MaxPathDepth),
        tail \in {<<>>, <<Sep>>} }

\* the test's upperCase: every element of the path in upper case, joined anew
toUpper(string) == [i \in 1..Len(string) |-> toupper(string[i])]
RECURSIVE JoinElements(_, _)
JoinElements(path, elems) ==
    IF elems = <<>> THEN path
    ELSE JoinElements(PathJoin(path, toUpper(Head(elems))), Tail(elems))
UpperCase(path) == JoinElements(<<>>, Elements(path))

NoCall == <<>>

CasingInit ==
    /\ PipelineIdle /\ ReaderIdle /\ UnitIdle
    /\ casingPath \in CasingPaths
    /\ casingResult = [first |-> NoCall, again |-> NoCall, upper |-> NoCall]

\* fixed = getCorrectCasingForPath(path)
CorrectCasing ==
    /\ casingResult.first = NoCall
    /\ casingResult' = [casingResult EXCEPT
                           !.first = getCorrectCasingForPath(casingPath)]
    /\ UNCHANGED <<casingPath, pipelineVars, readerVars, unitVars>>

\* getCorrectCasingForPath(*fixed)
CorrectCasingAgain ==
    /\ casingResult.first # NoCall /\ casingResult.first.ok
    /\ casingResult.again = NoCall
    /\ casingResult' = [casingResult EXCEPT
                           !.again = getCorrectCasingForPath(casingResult.first.value)]
    /\ UNCHANGED <<casingPath, pipelineVars, readerVars, unitVars>>

\* getCorrectCasingForPath(upperCase)
CorrectCasingUpper ==
    /\ casingResult.first # NoCall
    /\ casingResult.upper = NoCall
    /\ casingResult' = [casingResult EXCEPT
                           !.upper = getCorrectCasingForPath(UpperCase(casingPath))]
    /\ UNCHANGED <<casingPath, pipelineVars, readerVars, unitVars>>

CasingNext == CorrectCasing \/ CorrectCasingAgain \/ CorrectCasingUpper

SpecCasing == CasingInit /\ [][CasingNext]_vars

---------------------------------------------------------------------------
(* SpecReader: getFileEncoding and readFileLines applied to a stream       *)

MaxStreamLen == 4

StreamBytes == {xFF, xFE, x00, "\n", "\r", "a"}

ReaderInit ==
    /\ PipelineIdle /\ CasingIdle /\ UnitIdle
    /\ streamIn \in [bytes : SeqsUpTo(StreamBytes, MaxStreamLen), pos : {0},
                     good : BOOLEAN]
    /\ stream = streamIn
    /\ encoding = "none"
    /\ fileLines = NoCall

\* encoding = getFileEncoding(stream), on a stream nothing has read from
DetectEncoding ==
    /\ encoding = "none" /\ fileLines = NoCall /\ stream.good
    /\ \E enc \in {getFileEncoding(stream)} :
          encoding' = enc.encoding /\ stream' = enc.st
    /\ UNCHANGED <<streamIn, fileLines, pipelineVars, casingVars, unitVars>>

\* lines = readFileLines(stream)
ReadLines ==
    /\ encoding = "none" /\ fileLines = NoCall
    /\ \E read \in {readFileLines(stream)} :
          fileLines' = read.result /\ stream' = read.st
    /\ UNCHANGED <<streamIn, encoding, pipelineVars, casingVars, unitVars>>

ReaderNext == DetectEncoding \/ ReadLines

SpecReader == ReaderInit /\ [][ReaderNext]_vars

---------------------------------------------------------------------------
(* SpecInclude: findIncludePaths applied to a command                      *)

MaxArgs == 3

\* the pieces a command is put together from
CommandPieces == {
    <<"/","I","a"," ">>,                      \* /Ia and a space
    <<"/","I","a">>,                          \* /Ia
    <<"/","I","\"","a"," ","b","\""," ">>,    \* /I"a b" and a space
    <<"/","I"," "," ","\"","c","\"">>,        \* /I, two spaces, "c"
    <<"/","I","\"","b","/","I","\""," ">>,    \* /I"b/I" and a space
    <<"/","i","\"","d","\""," ">>,            \* /i"d" and a space
    <<"/","I"," ">>,                          \* /I and a space
    <<"/","I","\"">>,                         \* /I and an opening quote
    <<"/","I",x0B,"e"," ">>,                  \* /I, a vertical tab, e and a space
    <<"x"," ">> }                             \* x and a space

Commands == {JoinWith(pieces, <<>>) : pieces \in SeqsUpTo(CommandPieces, MaxArgs)}

IncludeInit ==
    /\ PipelineIdle /\ CasingIdle /\ ReaderIdle
    /\ WalkIdle /\ ResultIdle /\ DriverIdle
    /\ cmdLine \in Commands
    /\ pathsFound = NoCall

\* includePaths = detail::findIncludePaths(command)
FindIncludePaths ==
    /\ pathsFound = NoCall
    /\ pathsFound' = findIncludePaths(cmdLine)
    /\ UNCHANGED <<cmdLine, pipelineVars, casingVars, readerVars,
                   walkVars, resultVars, driverVars>>

SpecInclude == IncludeInit /\ [][FindIncludePaths]_vars

---------------------------------------------------------------------------
(* SpecWalk: findTlogFiles applied to a build directory and a config       *)

\* the build directories:
    \*   C:\w\build
    \*   build
    \*   build\
    \*   C:\W\BUILD
    \*   C:\w\build\Debug
    \*   build\Debug\x64
    \*   C:\w
    \*   .
    \*   build\..
    \*   build/p
    \*   C:\w\Src
    \*   C:\w\nope
    \*   C:\w\e
    \*   (the empty path)
    \*   build\Debug\x64\CL.command.1.tlog
WalkDirs == {
    <<"C",":","\\","w","\\","b","u","i","l","d">>,
    <<"b","u","i","l","d">>,
    <<"b","u","i","l","d","\\">>,
    <<"C",":","\\","W","\\","B","U","I","L","D">>,
    <<"C",":","\\","w","\\","b","u","i","l","d","\\","D","e","b","u","g">>,
    <<"b","u","i","l","d","\\","D","e","b","u","g","\\","x","6","4">>,
    <<"C",":","\\","w">>,
    <<".">>,
    <<"b","u","i","l","d","\\",".",".">>,
    <<"b","u","i","l","d","/","p">>,
    <<"C",":","\\","w","\\","S","r","c">>,
    <<"C",":","\\","w","\\","n","o","p","e">>,
    <<"C",":","\\","w","\\","e">>,
    <<>>,
    <<"b","u","i","l","d","\\","D","e","b","u","g","\\","x","6","4","\\","C","L",".","c","o","m","m","a","n","d",".","1",".","t","l","o","g">> }

\* the configs: Debug debug Rel build BUILD x64 p w
WalkConfigs == {
    <<"D","e","b","u","g">>,
    <<"d","e","b","u","g">>,
    <<"R","e","l">>,
    <<"b","u","i","l","d">>,
    <<"B","U","I","L","D">>,
    <<"x","6","4">>,
    <<"p">>,
    <<"w">> }

\* the directories that may be closed to the directory iterator:
\* C:\w\build, C:\w\build\p and C:\w\build\Debug\x64
WalkClosed == {
    << <<"w">>, <<"b","u","i","l","d">> >>,
    << <<"w">>, <<"b","u","i","l","d">>, <<"p">> >>,
    << <<"w">>, <<"b","u","i","l","d">>, <<"D","e","b","u","g">>, <<"x","6","4">> >> }

WalkInit ==
    /\ PipelineIdle /\ CasingIdle /\ ReaderIdle
    /\ IncludeIdle /\ ResultIdle /\ DriverIdle
    /\ walk \in [buildDir : WalkDirs, config : WalkConfigs,
                  unlistable : SUBSET WalkClosed]
    /\ foundTlogs = NoCall

\* tlogFiles = findTlogFiles(buildDir, config)
FindTlogFiles ==
    /\ foundTlogs = NoCall
    /\ foundTlogs' = findTlogFiles(walk.buildDir, walk.config, walk.unlistable)
    /\ UNCHANGED <<walk, pipelineVars, casingVars, readerVars,
                   includeVars, resultVars, driverVars>>

SpecWalk == WalkInit /\ [][FindTlogFiles]_vars

---------------------------------------------------------------------------
(* SpecResult: a Result<int, std::exception> that is constructed, assigned *)
(* to and asked                                                            *)

MaxValue == 8

Values == 0..MaxValue
Exceptions == {"Oops!", "Invalid file stream", ""}

\* what a Result is constructed or assigned from
Givens == [kind : {"value"}, what : Values] \cup [kind : {"error"}, what : Exceptions]

\* Result(TResult result), Result(TException exception)
Construct(given) == IF given.kind = "value" THEN Ok(given.what) ELSE Err(given.what)

ResultInit ==
    /\ PipelineIdle /\ CasingIdle /\ ReaderIdle
    /\ IncludeIdle /\ WalkIdle /\ DriverIdle
    /\ \E given \in Givens :
          /\ m_data = Construct(given)
          /\ accessed = [given |-> given, op |-> "Result", outcome |-> NoCall]

\* res = value, res = exception: the converting constructor, then operator=
Assign ==
    /\ \E given \in Givens :
          /\ m_data' = Construct(given)
          /\ accessed' = [given |-> given, op |-> "operator=", outcome |-> NoCall]
    /\ UNCHANGED <<pipelineVars, casingVars, readerVars,
                   includeVars, walkVars, driverVars>>

\* a call of the accessor `op` with the outcome `outcome`
Access(op, outcome) ==
    /\ accessed' = [accessed EXCEPT !.op = op, !.outcome = outcome]
    /\ UNCHANGED <<m_data, pipelineVars, casingVars, readerVars,
                   includeVars, walkVars, driverVars>>

CallIsOk == Access("isOk", Gives(isOk(m_data)))
CallIsErr == Access("isErr", Gives(isErr(m_data)))
CallValue == Access("value", GetValue(m_data))
CallError == Access("error", GetError(m_data))
CallDeref == Access("operator*", Deref(m_data))
CallArrow == Access("operator->", Arrow(m_data))
CallBool == Access("operator bool", Gives(ToBool(m_data)))

ResultNext ==
    \/ Assign \/ CallIsOk \/ CallIsErr \/ CallValue \/ CallError
    \/ CallDeref \/ CallArrow \/ CallBool

SpecResult == ResultInit /\ [][ResultNext]_vars

---------------------------------------------------------------------------
(* SpecDriver: one run of main                                             *)

MaxArgv == 3

\* what argv[1], argv[2], ... may hold: -c --build-dir -v --help -x Rel
\* nope build
ArgTokens == {
    <<"-","c">>, <<"-","-","b","u","i","l","d","-","d","i","r">>, <<"-","v">>, <<"-","-","h","e","l","p">>,
    <<"-","x">>, <<"R","e","l">>, <<"n","o","p","e">>, <<"b","u","i","l","d">> }

\* the value of main's `return`; falling off its end returns 0
Failure == 0 - 1

DriverInit ==
    /\ PipelineIdle /\ CasingIdle /\ ReaderIdle
    /\ IncludeIdle /\ WalkIdle /\ ResultIdle
    /\ argv \in [args : SeqsUpTo(ArgTokens, MaxArgv),
                  \* compile_commands.json is created and what is written
                  \* to it is stored; it cannot be created; it is created
                  \* and no write to it can be stored (the disk is full)
                  outputFile : {"stored", "not created", "not stored"},
                  unlistable : {{}, {<< <<"w">>, <<"b","u","i","l","d">>, <<"p">> >>}}]
    /\ mainState = [pc |-> "args", config |-> <<"D","e","b","u","g">>, buildDir |-> <<"b","u","i","l","d">>,
                    verbose |-> FALSE, returned |-> FALSE, status |-> 0,
                    tlogFiles |-> <<>>, compileCommands |-> <<>>,
                    output |-> <<>>, left |-> ""]

\* main.cpp lines 200-224
ParseArgs ==
    /\ mainState.pc = "args"
    /\ \E parsed \in {ParseArgv(argv.args, 1, mainState)} :
          mainState' = IF parsed.returned
                       THEN [parsed EXCEPT !.pc = "exit", !.left = "args"]
                       ELSE [parsed EXCEPT !.pc = "find"]
    /\ UNCHANGED <<argv, pipelineVars, casingVars, readerVars,
                   includeVars, walkVars, resultVars>>

\* main.cpp lines 226-232
FindTlogs ==
    /\ mainState.pc = "find"
    /\ \E tlogFiles \in {findTlogFiles(PathJoin(CurrentPath, mainState.buildDir),
                                        mainState.config, argv.unlistable)} :
          mainState' =
              IF ~tlogFiles.ok
              THEN [mainState EXCEPT !.pc = "exit", !.left = "find",
                                     !.returned = TRUE, !.status = Failure]
              ELSE [mainState EXCEPT !.pc = "create", !.tlogFiles = tlogFiles.value]
    /\ UNCHANGED <<argv, pipelineVars, casingVars, readerVars,
                   includeVars, walkVars, resultVars>>

\* main.cpp lines 236-240
CreateCommands ==
    /\ mainState.pc = "create"
    /\ \E created \in
              {MainCreateCompileCommands(PathJoin(CurrentPath, mainState.buildDir),
                                         mainState.tlogFiles, Ok(<<>>))} :
          mainState' =
              IF ~created.ok
              THEN [mainState EXCEPT !.pc = "exit", !.left = "create",
                                     !.returned = TRUE, !.status = Failure]
              ELSE [mainState EXCEPT !.pc = "write",
                                     !.compileCommands = created.value]
    /\ UNCHANGED <<argv, pipelineVars, casingVars, readerVars,
                   includeVars, walkVars, resultVars>>

\* main.cpp lines 244-272: the stream is opened, the text is put into it and
\* the stream is tested before it is flushed.  A stream that could not be
\* opened has failed; in one that is open the text of the commands lies in
\* the buffer and the test passes, main's end is reached without a return,
\* and the text is stored, or is lost, when the stream is destroyed
WriteOutput ==
    /\ mainState.pc = "write"
    /\ mainState' =
           IF argv.outputFile = "not created"
           THEN [mainState EXCEPT !.pc = "exit", !.left = "write",
                                  !.returned = TRUE, !.status = Failure]
           ELSE [mainState EXCEPT !.pc = "exit", !.left = "end", !.status = 0,
                                  !.output = IF argv.outputFile = "stored"
                                             THEN <<mainState.compileCommands>>
                                             ELSE <<>>]
    /\ UNCHANGED <<argv, pipelineVars, casingVars, readerVars,
                   includeVars, walkVars, resultVars>>

DriverNext == ParseArgs \/ FindTlogs \/ CreateCommands \/ WriteOutput

SpecDriver == DriverInit /\ [][DriverNext]_vars

---------------------------------------------------------------------------
(* Spec: one call of createCompileCommands                                 *)

MaxTlogs == 2

\* the tlog files a call may be given; C:\w\b\t0 is not on the disk
TlogIds == 0..Len(TlogContents)
TlogPath(i) == <<"C",":","\\","w","\\","b","\\","t">> \o <<IF i = 0 THEN "0" ELSE Digits[i]>>

ACpp == << <<"w">>, <<"S","r","c">>, <<"a",".","c","p","p">> >>
KM == << <<"w">>, <<"S","r","c">>, <<"k",".","m">> >>
SrcXH == << <<"w">>, <<"S","r","c">>, <<"x",".","h">> >>
IncXH == << <<"w">>, <<"I","n","c">>, <<"x",".","h">> >>
IncYH == << <<"w">>, <<"I","n","c">>, <<"y",".","h">> >>
EFile == << <<"w">>, <<"e">> >>

\* what the sources and headers may hold, line by line
ACppLines == { \* #include "x.h" / #include <zz.h>
               <<<<"#","i","n","c","l","u","d","e"," ","\"","x",".","h","\"">>, <<"#","i","n","c","l","u","d","e"," ","<","z","z",".","h",">">>>>,
               \* (two spaces) #include <e> / #include "..\Inc\y.h"
               <<<<" "," ","#","i","n","c","l","u","d","e"," ","<","e",">">>, <<"#","i","n","c","l","u","d","e"," ","\"",".",".","\\","I","n","c","\\","y",".","h","\"">>>> }
KMLines == { \* #import <y.h> / #include "x.h"
             <<<<"#","i","m","p","o","r","t"," ","<","y",".","h",">">>,
               <<"#","i","n","c","l","u","d","e"," ","\"","x",".","h","\"">>>> }
SrcXHLines == { <<>>,
                \* #include "a.cpp"
                <<<<"#","i","n","c","l","u","d","e"," ","\"","a",".","c","p","p","\"">>>>,
                \* #include <y.h>
                <<<<"#","i","n","c","l","u","d","e"," ","<","y",".","h",">">>>>,
                \* #include "."
                <<<<"#","i","n","c","l","u","d","e"," ","\"",".","\"">>>>,
                \* #include
                <<<<"#","i","n","c","l","u","d","e">>>> }
IncXHLines == { \* #include "y.h"
                <<<<"#","i","n","c","l","u","d","e"," ","\"","y",".","h","\"">>>> }
IncYHLines == { \* #include <x.h>
                <<<<"#","i","n","c","l","u","d","e"," ","<","x",".","h",">">>>> }
EFileLines == { \* #include <Inc/y.h> / #import <Inc/x.h>
                <<<<"#","i","n","c","l","u","d","e"," ","<","I","n","c","/","y",".","h",">">>, <<"#","i","m","p","o","r","t"," ","<","I","n","c","/","x",".","h",">">>>> }

ContentOf(a, k, x, ix, iy, e) ==
    [f \in {ACpp, KM, SrcXH, IncXH, IncYH, EFile} |->
        IF f = ACpp THEN a ELSE IF f = KM THEN k ELSE IF f = SrcXH THEN x
        ELSE IF f = IncXH THEN ix ELSE IF f = IncYH THEN iy ELSE e]

Contents ==
    {ContentOf(a, k, x, ix, iy, e) :
        a \in ACppLines, k \in KMLines, x \in SrcXHLines,
        ix \in IncXHLines, iy \in IncYHLines, e \in EFileLines}

Init ==
    /\ env \in [tlogFiles : SeqsUpTo(TlogIds, MaxTlogs),
                skipHeaders : BOOLEAN,
                content : Contents]
    /\ pc = "open" /\ tlogIdx = 1 /\ lines = <<>> /\ lineIdx = 0
    /\ compileCommands = <<>> /\ additionalCommands = <<>> /\ error = ""
    /\ opened = {} /\ warnings = <<>>
    /\ CasingIdle /\ ReaderIdle /\ UnitIdle

\* lines 83-90: the next tlog file is opened and read
OpenTlog ==
    /\ pc = "open" /\ tlogIdx <= Len(env.tlogFiles)
    /\ \E r \in {readFileLines(OpenStream(TlogPath(env.tlogFiles[tlogIdx]))).result} :
          IF ~r.ok
          THEN /\ pc' = "error" /\ error' = r.error
               /\ UNCHANGED <<tlogIdx, lines, lineIdx>>
          ELSE IF r.value = <<>>
          THEN /\ tlogIdx' = tlogIdx + 1
               /\ UNCHANGED <<pc, lines, lineIdx, error>>
          ELSE /\ pc' = "line" /\ lines' = r.value /\ lineIdx' = 1
               /\ UNCHANGED <<tlogIdx, error>>
    /\ UNCHANGED <<env, compileCommands, additionalCommands, opened, warnings>>
    /\ UNCHANGED <<casingVars, readerVars, unitVars>>

\* lines 92-139: one line of the tlog file
ReadTlogLine ==
    /\ pc = "line"
    /\ \E r \in {SourceCommandStep(compileCommands, lines[lineIdx])} :
          IF ~r.ok
          THEN /\ pc' = "error" /\ error' = r.error
               /\ UNCHANGED <<tlogIdx, lineIdx, compileCommands>>
          ELSE /\ compileCommands' = r.value
               /\ pc' = IF lineIdx = Len(lines) THEN "open" ELSE "line"
               /\ tlogIdx' = IF lineIdx = Len(lines) THEN tlogIdx + 1 ELSE tlogIdx
               /\ lineIdx' = IF lineIdx = Len(lines) THEN lineIdx ELSE lineIdx + 1
               /\ UNCHANGED error
    /\ warnings' = warnings \o SourceWarningStep(lines[lineIdx])
    /\ UNCHANGED <<env, lines, additionalCommands, opened>>
    /\ UNCHANGED <<casingVars, readerVars, unitVars>>

\* FinishSources without the test of skipHeaders in line 142
FinishSourcesToHeaders ==
    /\ pc = "open" /\ tlogIdx > Len(env.tlogFiles)
    /\ pc' = "headers"
    /\ UNCHANGED <<env, tlogIdx, lines, lineIdx, compileCommands,
                   additionalCommands, error, opened, warnings>>
    /\ UNCHANGED <<casingVars, readerVars, unitVars>>

\* line 142 and line 169: every tlog file is read
FinishSources ==
    /\ pc = "open" /\ tlogIdx > Len(env.tlogFiles)
    /\ pc' = IF env.skipHeaders THEN "done" ELSE "headers"
    /\ UNCHANGED <<env, tlogIdx, lines, lineIdx, compileCommands,
                   additionalCommands, error, opened, warnings>>
    /\ UNCHANGED <<casingVars, readerVars, unitVars>>

\* lines 145-166: one turn of the while loop; where the behaviour of the call
\* is undefined, either outcome
HeaderFanOut ==
    /\ pc = "headers"
    /\ \E headersCommands \in
              {createCompileCommandsForHeaders(
                   IF additionalCommands # <<>> THEN additionalCommands[1]
                   ELSE compileCommands,
                   compileCommands, checked) : checked \in BOOLEAN} :
          /\ opened' = opened \cup headersCommands.opened
          /\ IF ~headersCommands.res.ok
             THEN /\ pc' = IF headersCommands.res = Diverges THEN "hung"
                           ELSE IF headersCommands.res = Aborts THEN "aborted"
                           ELSE "error"
                  /\ error' = headersCommands.res.error
                  /\ UNCHANGED <<compileCommands, additionalCommands>>
             ELSE /\ additionalCommands' = <<headersCommands.res.value>>
                  /\ UNCHANGED error
                  /\ IF headersCommands.res.value = <<>>
                     THEN pc' = "done" /\ UNCHANGED compileCommands
                     ELSE /\ pc' = "headers"
                          /\ compileCommands' =
                                 compileCommands \o headersCommands.res.value
    /\ UNCHANGED <<env, tlogIdx, lines, lineIdx, warnings>>
    /\ UNCHANGED <<casingVars, readerVars, unitVars>>

Next == OpenTlog \/ ReadTlogLine \/ FinishSources \/ HeaderFanOut

Spec == Init /\ [][Next]_vars

---------------------------------------------------------------------------
(* Properties of createCompileCommands                                     *)

Files(commands) == {commands[i].file : i \in 1..Len(commands)}

\* the call has returned its commands
Returned == pc = "done"

\* C1: the sequence createCompileCommands builds, and returns, never holds two
\* entries with the same `file` string, whatever the tlog files and skipHeaders
NoTwoEntriesShareFile ==
    \A i, j \in 1..Len(compileCommands) :
        i # j => compileCommands[i].file # compileCommands[j].file

\* a.cpp is named by the two tlog files read and is included again by the
\* header x.h beside it, and the call has returned with x.h among its entries
DuplicatesWereDropped ==
    /\ Returned /\ ~env.skipHeaders
    /\ env.tlogFiles = <<1, 3>>
    /\ IncludedFiles(env.content[SrcXH], FALSE, FALSE).value
           = <<[filePath |-> <<"a",".","c","p","p">>, usesQuotes |-> TRUE]>>
    /\ <<"C",":","\\","w","\\","S","r","c","\\","x",".","h">> \in Files(compileCommands)

\* C2: every entry returned has a command that begins with "cl.exe " and holds
\* the entry's file, and the file exists on the disk
EveryCommandWellFormed ==
    Returned =>
        \A i \in 1..Len(compileCommands) :
            /\ StartsWith(compileCommands[i].command, ClExe)
            /\ Contains(compileCommands[i].command, compileCommands[i].file)
            /\ Exists(compileCommands[i].file)

\* a turn of the fan-out loop whose call returns either ends the loop, with an
\* empty batch or an error, or adds at least one entry, and only entries whose
\* files the list did not hold
FanOutGrowsOrEnds ==
    [][HeaderFanOut =>
          \/ pc' \in {"done", "error", "hung", "aborted"}
          \/ /\ Len(compileCommands') > Len(compileCommands)
             /\ SubSeq(compileCommands', 1, Len(compileCommands)) = compileCommands
             /\ \A i \in (Len(compileCommands) + 1)..Len(compileCommands') :
                   compileCommands'[i].file \notin Files(compileCommands)]_vars

\* C3: the header fan-out loop terminates: it never makes a call of
\* createCompileCommandsForHeaders that does not return
FanOutCallsReturn == pc # "hung"

\* the existing files the well-formed #include directives of the file of
\* `entry` name: beside the file for a quoted include, and on every /I path of
\* the entry's command
ResolvedIncludes(entry) ==
    LET fileRead == readFileLines(OpenStream(entry.file)).result
        included == IF fileRead.ok THEN IncludedFiles(fileRead.value, FALSE, FALSE).value ELSE <<>>
        found == findIncludePaths(entry.command)
        includePaths == IF found.ok THEN found.value ELSE <<>>
        Candidates(f) ==
            {LexicallyNormal(PathJoin(base, f.filePath)) :
                base \in Range(PathsToTry(f, entry.file, includePaths))}
    IN  {p \in UNION {Candidates(included[k]) : k \in 1..Len(included)} : Exists(p)}

\* the case-corrected paths of ResolvedIncludes
IncludedBy(entry) ==
    {getCorrectCasingForPath(p).value :
        p \in {q \in ResolvedIncludes(entry) : getCorrectCasingForPath(q).ok}}

\* C4: a result with skipHeaders false is closed under inclusion: whatever a
\* well-formed #include of an entry's file resolves to is the file of an entry
ClosedUnderInclusion ==
    (Returned /\ ~env.skipHeaders) =>
        \A i \in 1..Len(compileCommands) :
            IncludedBy(compileCommands[i]) \subseteq Files(compileCommands)

\* the source commands of the lines `ls` of a tlog file, after `commands`
RECURSIVE CommandsOfLines(_, _)
CommandsOfLines(commands, ls) ==
    IF ls = <<>> THEN commands
    ELSE CommandsOfLines(SourceCommandStep(commands, Head(ls)).value, Tail(ls))

RECURSIVE CommandsOfTlogs(_, _)
CommandsOfTlogs(commands, tlogFiles) ==
    IF tlogFiles = <<>> THEN commands
    ELSE CommandsOfTlogs(
             CommandsOfLines(commands,
                 readFileLines(OpenStream(TlogPath(Head(tlogFiles)))).result.value),
             Tail(tlogFiles))

\* the source commands of the tlog files of the call, whatever skipHeaders is
SourceCommands == CommandsOfTlogs(<<>>, env.tlogFiles)

\* C5: with skipHeaders the call returns the source commands of the tlog lines
\* and opens no source for directives; without it the result starts with the
\* same source commands, and every entry after them is a file that an earlier
\* entry includes
SkipHeadersReturnsSources ==
    /\ env.skipHeaders => opened = {}
    /\ Returned =>
          /\ Len(compileCommands) >= Len(SourceCommands)
          /\ SubSeq(compileCommands, 1, Len(SourceCommands)) = SourceCommands
          /\ env.skipHeaders => compileCommands = SourceCommands
          /\ \A i \in (Len(SourceCommands) + 1)..Len(compileCommands) :
                \E j \in 1..(i - 1) :
                    compileCommands[i].file \in IncludedBy(compileCommands[j])

\* a call with skipHeaders has returned the command of a source whose includes
\* resolve to headers
SourcesOnlyReturned ==
    /\ Returned /\ env.skipHeaders
    /\ compileCommands # <<>>
    /\ \E i \in 1..Len(compileCommands) : IncludedBy(compileCommands[i]) # {}

---------------------------------------------------------------------------
(* Properties of getCorrectCasingForPath (SpecCasing)                      *)

\* C6: for a path that exists the call succeeds, and the call on its result
\* succeeds and returns that result
CasingIdempotent ==
    (casingResult.first # NoCall /\ Exists(casingPath)) =>
        /\ casingResult.first.ok
        /\ casingResult.again # NoCall => casingResult.again = casingResult.first

\* C7: for a path that exists, the call on the path in upper case returns what
\* the call on the path returns
UpperCaseSameCasing ==
    (/\ casingResult.first # NoCall /\ casingResult.upper # NoCall
     /\ Exists(casingPath) /\ casingResult.first.ok) =>
        casingResult.upper = casingResult.first

\* C8: for a path that does not exist the call returns an error, never a path
MissingPathIsError ==
    /\ (casingResult.first # NoCall /\ ~Exists(casingPath))
           => ~casingResult.first.ok
    /\ (casingResult.upper # NoCall /\ ~Exists(UpperCase(casingPath)))
           => ~casingResult.upper.ok

\* the call was made on a path that names nothing in a directory that exists
MissingPathWasTried ==
    /\ casingResult.first # NoCall
    /\ ~Exists(casingPath)
    /\ HasParentPath(casingPath) /\ IsDirectory(ParentPath(casingPath))

---------------------------------------------------------------------------
(* Properties of getFileEncoding and readFileLines (SpecReader)            *)

LittleEndianMark == <<xFF, xFE>>
BigEndianMark == <<xFE, xFF>>

\* C9: the encoding is UTF-16 LE exactly when the stream starts with FF FE,
\* UTF-16 BE exactly when it starts with FE FF, and otherwise UTF-8 with the
\* stream left readable at offset 0, for streams of every length
EncodingByFirstTwoBytes ==
    encoding # "none" =>
        /\ encoding = "Utf16LittleEndian" <=> StartsWith(streamIn.bytes, LittleEndianMark)
        /\ encoding = "Utf16BigEndian" <=> StartsWith(streamIn.bytes, BigEndianMark)
        /\ (/\ ~StartsWith(streamIn.bytes, LittleEndianMark)
            /\ ~StartsWith(streamIn.bytes, BigEndianMark))
               => encoding = "Utf8" /\ stream.good /\ stream.pos = 0

\* the content of a stream: all of it for UTF-8, the bytes at the even offsets
\* after the mark for UTF-16 LE, at the odd offsets after it for UTF-16 BE
DecodedContent(bytes) ==
    IF StartsWith(bytes, LittleEndianMark)
    THEN [k \in 1..((Len(bytes) - 1) \div 2) |-> bytes[2 * k + 1]]
    ELSE IF StartsWith(bytes, BigEndianMark)
    THEN [k \in 1..((Len(bytes) - 2) \div 2) |-> bytes[2 * k + 2]]
    ELSE bytes

Newlines(content) == {i \in 1..Len(content) : content[i] = "\n"}

\* the position of the j-th newline; 0 for j = 0, past the end for the one
\* after the last
NewlineAt(content, j) ==
    IF j = 0 THEN 0
    ELSE IF j > Cardinality(Newlines(content)) THEN Len(content) + 1
    ELSE CHOOSE i \in Newlines(content) :
             Cardinality({m \in Newlines(content) : m <= i}) = j

\* what lies between two newlines, without one "\r" at its end
LineOf(content, j) ==
    LET raw == SubSeq(content, NewlineAt(content, j - 1) + 1,
                      NewlineAt(content, j) - 1)
    IN  IF raw # <<>> /\ raw[Len(raw)] = "\r"
        THEN SubSeq(raw, 1, Len(raw) - 1) ELSE raw

\* content with k newlines is k + 1 lines; no content is no line
LinesOf(content) ==
    IF content = <<>> THEN <<>>
    ELSE [j \in 1..(Cardinality(Newlines(content)) + 1) |-> LineOf(content, j)]

\* C10: for a readable stream readFileLines returns the decoded content split
\* at every "\n", each line without one "\r" at its end: k + 1 lines for
\* content with k newlines
LinesAreDecodedContent ==
    (fileLines # NoCall /\ streamIn.good) =>
        /\ fileLines.ok
        /\ fileLines.value = LinesOf(DecodedContent(streamIn.bytes))

---------------------------------------------------------------------------
(* Properties of readFileLines on a stream that cannot be read             *)

\* C11: readFileLines on a stream that is not in a readable state (a file
\* stream opened on a path that does not exist, for one) returns an error
\* and reads nothing: the stream is left as it was handed over.
UnreadableStreamIsError ==
    (fileLines # NoCall /\ ~streamIn.good)
        => (~fileLines.ok /\ stream = streamIn)

\* readFileLines has returned for a failed stream over bytes that would
\* decode to a line
UnreadableStreamWasRead ==
    /\ fileLines # NoCall /\ ~streamIn.good
    /\ streamIn.bytes = <<"a", "\n">>

---------------------------------------------------------------------------
(* Properties of findIncludePaths                                          *)
(*                                                                         *)
(* An occurrence of /I is read as an argument when it does not lie in the  *)
(* text of the argument before it.  Its text starts after the whitespace   *)
(* that follows /I; it is quoted when it starts with a quote, and then     *)
(* runs to the next quote; a bare one runs to the next space.              *)

\* the first index from `from` on that holds no whitespace; Len(c) if none
TextStart(c, from) ==
    Min({i \in from..Len(c) : i = Len(c) \/ ~isspace(c[i + 1])})

\* the /I at index h is followed by whitespace only
NoText(c, h) == TextStart(c, h + 2) = Len(c)

IsQuoted(c, h) == ~NoText(c, h) /\ c[TextStart(c, h + 2) + 1] = "\""

\* the index of the first character of the argument's text
ArgFirst(c, h) == TextStart(c, h + 2) + (IF IsQuoted(c, h) THEN 1 ELSE 0)

\* the indexes where the text of the argument can end
ArgClosers(c, h) ==
    {i \in ArgFirst(c, h)..(Len(c) - 1) :
        c[i + 1] = (IF IsQuoted(c, h) THEN "\"" ELSE " ")}

Unterminated(c, h) == ~NoText(c, h) /\ ArgClosers(c, h) = {}

ArgText(c, h) ==
    [k \in 1..(Min(ArgClosers(c, h)) - ArgFirst(c, h)) |-> c[ArgFirst(c, h) + k]]

\* the indexes of the /I arguments of c from index `from` on, left to right;
\* the list ends with the first one that has no text or is not terminated
RECURSIVE Arguments(_, _)
Arguments(c, from) ==
    LET here == {i \in from..(Len(c) - 2) : c[i + 1] = "/" /\ c[i + 2] = "I"}
        h == Min(here)
    IN  IF here = {} THEN <<>>
        ELSE IF NoText(c, h) \/ Unterminated(c, h) THEN <<h>>
        ELSE <<h>> \o Arguments(c, Min(ArgClosers(c, h)) + 1)

\* the last /I argument of c, 0 - 1 if c has none
LastArgument(c) ==
    IF Arguments(c, 0) = <<>> THEN 0 - 1
    ELSE Arguments(c, 0)[Len(Arguments(c, 0))]

EveryArgumentFollowed(c) ==
    LastArgument(c) >= 0 =>
        ~NoText(c, LastArgument(c)) /\ ~Unterminated(c, LastArgument(c))

\* C12: for a command in which every /I argument is followed by more text,
\* findIncludePaths returns one path for each /I argument, the text between
\* the quotes of a quoted one and the text up to the next space of a bare
\* one, in the order of the command and with a path that is given twice
\* returned twice; /i gives no path.
OnePathPerArgument ==
    (pathsFound # NoCall /\ EveryArgumentFollowed(cmdLine)) =>
        /\ pathsFound.ok
        /\ pathsFound.value =
               [k \in 1..Len(Arguments(cmdLine, 0)) |->
                   ArgText(cmdLine, Arguments(cmdLine, 0)[k])]

\* the call has returned for  /i"d" /Ia /Ia  : the path a twice and no
\* path for /i
PathsWereFound ==
    /\ cmdLine = <<"/","i","\"","d","\""," ","/","I","a"," ","/","I","a"," ">>
    /\ pathsFound = Ok(<< <<"a">>, <<"a">> >>)

\* C13: findIncludePaths returns an error, and no list of paths, when an /I
\* is followed by whitespace only up to the end of the command and when an
\* /I is followed by an opening quote that no later quote closes.
MalformedIncludeIsError ==
    (/\ pathsFound # NoCall
     /\ LastArgument(cmdLine) >= 0
     /\ \/ NoText(cmdLine, LastArgument(cmdLine))
        \/ IsQuoted(cmdLine, LastArgument(cmdLine))
              /\ Unterminated(cmdLine, LastArgument(cmdLine)))
        => (~pathsFound.ok /\ pathsFound # Diverges)

\* the call has returned for  /Ia /I"a b" /I"  and for  /Ia x /I
MalformedIncludeWasGiven ==
    /\ pathsFound # NoCall
    /\ cmdLine \in { <<"/","I","a"," ","/","I","\"","a"," ","b","\""," ","/","I","\"">>,
                      <<"/","I","a"," ","x"," ","/","I"," ">> }

\* C14: for a command whose last /I argument is bare and is followed by no
\* space, findIncludePaths returns, and the last path of its list is that
\* argument running to the end of the command.
LastBarePathRunsToEnd ==
    (/\ pathsFound # NoCall
     /\ LastArgument(cmdLine) >= 0
     /\ ~IsQuoted(cmdLine, LastArgument(cmdLine))
     /\ Unterminated(cmdLine, LastArgument(cmdLine)))
        => /\ pathsFound.ok
           /\ pathsFound.value # <<>>
           /\ pathsFound.value[Len(pathsFound.value)] =
                  SubstrFrom(cmdLine, ArgFirst(cmdLine, LastArgument(cmdLine)))

---------------------------------------------------------------------------
(* Properties of findTlogFiles                                             *)

\* the path the walk from buildDir gives the entry `rel` filenames below it
RECURSIVE Spelled(_, _)
Spelled(buildDir, rel) ==
    IF rel = <<>> THEN buildDir
    ELSE Spelled(IF buildDir = <<>> \/ IsSlash(buildDir[Len(buildDir)])
                 THEN buildDir \o Head(rel)
                 ELSE buildDir \o <<Sep>> \o Head(rel),
                 Tail(rel))

\* the names a path is spelled with: its pieces between slashes, the drive
\* left out
RECURSIVE SpelledNames(_, _)
SpelledNames(text, name) ==
    IF text = <<>> THEN (IF name = <<>> THEN <<>> ELSE <<name>>)
    ELSE IF IsSlash(Head(text)) \/ (Head(text) = ":" /\ Len(name) = 1)
    THEN (IF name = <<>> \/ Head(text) = ":" THEN <<>> ELSE <<name>>)
             \o SpelledNames(Tail(text), <<>>)
    ELSE SpelledNames(Tail(text), Append(name, Head(text)))

\* the name of the directory two levels above the file at `text`
GrandparentName(text) ==
    LET names == SpelledNames(text, <<>>)
    IN  IF Len(names) >= 3 THEN names[Len(names) - 2] ELSE <<>>

\* the filenames below the directory `base` of the entries of the disk that
\* lie in it at any depth
Below(base) ==
    {SubSeq(Disk[i].name, Len(base) + 1, Len(Disk[i].name)) :
        i \in {k \in DOMAIN Disk :
                  /\ Len(Disk[k].name) > Len(base)
                  /\ SubSeq(Disk[k].name, 1, Len(base)) = base}}

\* the tlog files of `config` below buildDir
Qualifying(buildDir, config) ==
    {Spelled(buildDir, rel) : rel \in
        {r \in Below(Stat(buildDir).names) :
            /\ ~IsDirectory(Spelled(buildDir, r))
            /\ r[Len(r)] = ClCommandTlog
            /\ GrandparentName(Spelled(buildDir, r)) # <<>>
            /\ GrandparentName(Spelled(buildDir, r)) = config}}

\* a directory the directory iterator cannot open is buildDir or lies below it
WalkFails ==
    \E d \in walk.unlistable :
        \/ d = Stat(walk.buildDir).names
        \/ \E r \in Below(Stat(walk.buildDir).names) :
               d = Stat(walk.buildDir).names \o r

\* C15: for an existing build directory findTlogFiles returns, each once,
\* exactly the entries below it at any depth that are no directories, are
\* named CL.command.1.tlog and have a grandparent directory named config;
\* the empty sequence, as a success, when there is none.
TlogFilesAreTheQualifying ==
    (foundTlogs # NoCall /\ IsDirectory(walk.buildDir) /\ ~WalkFails) =>
        /\ foundTlogs.ok
        /\ \A i, j \in DOMAIN foundTlogs.value :
               foundTlogs.value[i] = foundTlogs.value[j] => i = j
        /\ {foundTlogs.value[i] : i \in DOMAIN foundTlogs.value}
               = Qualifying(walk.buildDir, walk.config)

\* the call for C:\w\build and Debug has returned two files: not the tlog
\* file one level below Debug, not the directory named as a tlog file
TlogFilesWereFound ==
    /\ walk.buildDir = <<"C",":","\\","w","\\","b","u","i","l","d">>
    /\ walk.config = <<"D","e","b","u","g">>
    /\ foundTlogs # NoCall /\ foundTlogs.ok /\ Len(foundTlogs.value) = 2

\* C16: findTlogFiles returns an error when buildDir is no existing
\* directory; an error met in a directory below is the error of the whole
\* call, and the files found before it are not returned.
WalkErrorIsTheResult ==
    /\ (foundTlogs # NoCall /\ ~IsDirectory(walk.buildDir)) => ~foundTlogs.ok
    /\ (foundTlogs # NoCall /\ IsDirectory(walk.buildDir) /\ WalkFails) =>
           /\ ~foundTlogs.ok
           /\ Stat(foundTlogs.error[2]).names \in walk.unlistable

\* the call for C:\w\build and config build has met C:\w\build\Debug\x64,
\* which cannot be listed, after it found C:\w\build\Debug\CL.command.1.tlog
WalkMetClosedDirectory ==
    /\ walk.buildDir = <<"C",":","\\","w","\\","b","u","i","l","d">>
    /\ walk.config = <<"b","u","i","l","d">>
    /\ walk.unlistable = {<< <<"w">>, <<"b","u","i","l","d">>, <<"D","e","b","u","g">>, <<"x","6","4">> >>}
    /\ foundTlogs # NoCall

---------------------------------------------------------------------------
(* Properties of Result                                                    *)

\* C17: a Result is in exactly one of two states.  Constructed or assigned
\* from a value: isOk() and the bool conversion are true, isErr() is false,
\* value(), operator* and operator-> give that value, error() throws
\* BadResultAccess.  Constructed or assigned from an error: isErr() is
\* true, isOk() and the bool conversion are false, error() gives that
\* error, value(), operator* and operator-> throw BadResultAccess.  No
\* accessor returns a default in the wrong state.
ResultDiscipline ==
    LET held == accessed.given.kind = "value"
        mine == Gives(accessed.given.what)
        out == accessed.outcome
    IN  /\ isOk(m_data) # isErr(m_data)
        /\ accessed.op \in {"isOk", "operator bool"} => out = Gives(held)
        /\ accessed.op = "isErr" => out = Gives(~held)
        /\ accessed.op \in {"value", "operator*", "operator->"} =>
               IF held THEN out = mine ELSE out.threw = "BadResultAccess"
        /\ accessed.op = "error" =>
               IF held THEN out.threw = "BadResultAccess" ELSE out = mine

\* value() was called on a Result that an error was assigned to
ValueOfErrorWasAsked ==
    /\ accessed.given.kind = "error"
    /\ accessed.op = "value"

---------------------------------------------------------------------------
(* Properties of the driver                                                *)

\* an argument that is read as a flag and is none: the arguments are read
\* from the left, a value follows --config and --build-dir, and nothing is
\* read after --help or after a flag whose value is missing
RECURSIVE Unrecognised(_, _)
Unrecognised(a, i) ==
    IF i > Len(a) \/ a[i] \in HelpFlags THEN FALSE
    ELSE IF a[i] \in ConfigFlags \cup BuildDirFlags
    THEN i < Len(a) /\ Unrecognised(a, i + 2)
    ELSE IF a[i] \in VerboseFlags THEN Unrecognised(a, i + 1)
    ELSE TRUE

\* --help is read as a flag, every argument before it being a recognised
\* flag or the value of one
RECURSIVE HelpGiven(_, _)
HelpGiven(a, i) ==
    /\ i <= Len(a)
    /\ \/ a[i] \in HelpFlags
       \/ a[i] \in ConfigFlags \cup BuildDirFlags /\ i < Len(a) /\ HelpGiven(a, i + 2)
       \/ a[i] \in VerboseFlags /\ HelpGiven(a, i + 1)

\* The exit status by the step main left from: 0 from its end, with
\* compile_commands.json written when what is written to it can be stored,
\* and for --help; not 0, and no file written, when findTlogFiles or
\* createCompileCommands returned an error or the output stream could not
\* be opened.
ExitStatusByStep ==
    mainState.pc = "exit" =>
        /\ mainState.left = "end" =>
               /\ mainState.status = 0
               /\ argv.outputFile # "not created"
               /\ mainState.output = IF argv.outputFile = "stored"
                                     THEN <<mainState.compileCommands>> ELSE <<>>
        /\ mainState.left \in {"find", "create", "write"} =>
               mainState.status # 0 /\ mainState.output = <<>>
        /\ mainState.left = "args" =>
               /\ mainState.output = <<>>
               /\ HelpGiven(argv.args, 1) => mainState.status = 0

\* C18: the exit status is 0 when the run succeeds and when --help is
\* given, and not 0 when an argument is no recognised flag, when
\* findTlogFiles or createCompileCommands returns an error, or when the
\* output cannot be written; on such an error compile_commands.json is not
\* written.
ExitStatusTellsOutcome ==
    /\ ExitStatusByStep
    /\ (mainState.pc = "exit" /\ HelpGiven(argv.args, 1)) => mainState.status = 0
    /\ (mainState.pc = "exit" /\ Unrecognised(argv.args, 1)) => mainState.status # 0
    /\ (mainState.pc = "exit" /\ mainState.left \in {"write", "end"}
            /\ argv.outputFile # "stored") => mainState.status # 0

---------------------------------------------------------------------------
(* Properties of the source stage: a line that names no source             *)

SourceSuffixes ==
    { <<".","C">>, <<".","C","C">>, <<".","C","P","P">>, <<".","C","X","X">>,
      <<".","M">>, <<".","M","M">> }

\* the line starts with /c and its last characters are none of the suffixes
NamesNoSource(line) ==
    /\ Len(line) >= 2 /\ line[1] = "/" /\ line[2] = "c"
    /\ \A n \in 2..4 :
           Len(line) >= n => SubSeq(line, Len(line) - n + 1, Len(line)) \notin SourceSuffixes

\* a tlog file given to the call holds a line that names no source
SomeLineNamesNoSource ==
    \E k \in 1..Len(env.tlogFiles) :
        /\ env.tlogFiles[k] # 0
        /\ \E n \in 1..Len(TlogContents[env.tlogFiles[k]]) :
               NamesNoSource(TlogContents[env.tlogFiles[k]][n])

\* C20: when a line of a tlog file starts with /c and ends with none of .C,
\* .CC, .CPP, .CXX, .M, .MM in upper case, createCompileCommands never gets
\* to the headers and never returns commands: it returns an error, and the
\* commands of the earlier lines and files with it are not returned; the
\* error NotASourceCommand is only ever raised at such a line.
NoSourceLineFailsTheCall ==
    /\ SomeLineNamesNoSource =>
           /\ pc \notin {"headers", "done", "hung"}
           /\ tlogIdx <= Len(env.tlogFiles)
    /\ (pc = "error" /\ error = "NotASourceCommand") =>
           /\ NamesNoSource(lines[lineIdx])
           /\ ~Returned

\* the call failed at the third line of t5, /c /W3 C:\W\SRC\A.cpp, after the
\* line ^C:\W\SRC\K.H, with the commands of t1 and of the line before in
\* its vector
NoSourceLineWasRead ==
    /\ env.tlogFiles = <<1, 5>>
    /\ pc = "error" /\ error = "NotASourceCommand"
    /\ tlogIdx = 2 /\ lineIdx = 3
    /\ Len(compileCommands) = 2

---------------------------------------------------------------------------
(* Properties of the two stages: a path whose casing cannot be corrected   *)

CasingErrors == {"PathNotFound", "ParentMissing", "NoCaseMatch"}

\* the line is a command of a source: it starts with /c and ends with one of
\* the suffixes
NamesSource(line) ==
    /\ Len(line) >= 2 /\ line[1] = "/" /\ line[2] = "c"
    /\ ~NamesNoSource(line)

\* the positions (from 1) after the first character of the line where a
\* letter stands before a colon; the source path starts at the last of them
DriveLetters(line) ==
    {i \in 2..(Len(line) - 1) :
        line[i] \in Range(UpperChars) \cup Range(LowerChars) /\ line[i + 1] = ":"}

SourcePath(line) == SubSeq(line, Max(DriveLetters(line)), Len(line))

\* the entries the next turn of the fan-out loop checks
ToCheck == IF additionalCommands # <<>> THEN additionalCommands[1] ELSE compileCommands

\* the entries to check, other than Objective-C ones, with an #include of a
\* file that exists and whose casing cannot be corrected
EntriesWithUncasedInclude ==
    {k \in 1..Len(ToCheck) :
        /\ ~EndsWith(ToCheck[k].file, <<"m">>)
        /\ \E c \in ResolvedIncludes(ToCheck[k]) : ~getCorrectCasingForPath(c).ok}

\* C19: a source line whose path cannot be case-corrected adds no entry and
\* raises no error, and the call goes on to the next line or file; in the
\* fan-out an included file that exists and cannot be case-corrected ends
\* the call with an error, and an error of the case resolver is only ever
\* returned for such a file, never for one that does not exist.
CasingFailureByStage ==
    [][/\ (/\ ReadTlogLine
           /\ NamesSource(lines[lineIdx])
           /\ DriveLetters(lines[lineIdx]) # {}
           /\ ~getCorrectCasingForPath(SourcePath(lines[lineIdx])).ok)
          => /\ compileCommands' = compileCommands
             /\ error' = error
             /\ pc' = IF lineIdx = Len(lines) THEN "open" ELSE "line"
       /\ HeaderFanOut =>
             /\ EntriesWithUncasedInclude # {}
                    => pc' \in {"error", "hung", "aborted"}
             /\ (pc' = "error" /\ error' \in CasingErrors)
                    => EntriesWithUncasedInclude # {}]_vars

\* the call was given t2, passed over its line /c C:\W\SRC\GONE.CPP and made
\* the entry of a.cpp from the next; a.cpp includes "x.h" and <zz.h>, which is
\* nowhere, and x.h includes ".", the directory C:\w\Src\, and the call
\* returned the error of the case resolver
CasingFailedInBothStages ==
    /\ env.tlogFiles = <<2>>
    /\ pc = "error" /\ error = "NoCaseMatch"
    /\ Len(compileCommands) = 2
    /\ compileCommands[1].file = <<"C",":","\\","w","\\","S","r","c","\\","a",".","c","p","p">>
    /\ compileCommands[2].file = <<"C",":","\\","w","\\","S","r","c","\\","x",".","h">>

---------------------------------------------------------------------------
(* Properties of the fan-out: the directives of a file                     *)

\* the line without the spaces and tabs it starts with
RECURSIVE Unindented(_)
Unindented(line) ==
    IF line # <<>> /\ line[1] \in {" ", "\t"} THEN Unindented(Tail(line)) ELSE line

Begins(l, word) == Len(l) >= Len(word) /\ SubSeq(l, 1, Len(word)) = word

\* the name a directive gives: between quotes, or between < and >
NameGiven(rest) ==
    LET closer == IF rest # <<>> /\ rest[1] = "\"" THEN "\"" ELSE ">"
        ends == {j \in 2..Len(rest) : rest[j] = closer}
    IN  IF rest = <<>> \/ rest[1] \notin {"\"", "<"} \/ ends = {} THEN <<>>
        ELSE <<[filePath |-> SubSeq(rest, 2, Min(ends) - 1),
                usesQuotes |-> rest[1] = "\""]>>

\* the included file of a line: of an #include, and in an Objective-C file
\* of an #import as well
Directive(l, isObjC) ==
    IF Begins(l, Include) THEN NameGiven(Unindented(SubSeq(l, 9, Len(l))))
    ELSE IF isObjC /\ Begins(l, Import) THEN NameGiven(Unindented(SubSeq(l, 8, Len(l))))
    ELSE <<>>

RECURSIVE Directives(_, _)
Directives(ls, isObjC) ==
    IF ls = <<>> THEN <<>>
    ELSE Directive(Unindented(Head(ls)), isObjC) \o Directives(Tail(ls), isObjC)

\* the lines of a file the fan-out opened
LinesRead(file) == readFileLines(OpenStream(file)).result.value

\* the files the fan-out opened but for the Objective-C ones: the included
\* files are those of the lines that begin with #include, and an #import
\* gives none
IncludeOnlyOutsideObjC ==
    \A file \in opened :
        ~EndsWith(file, <<"m">>) =>
            IncludedFiles(LinesRead(file), FALSE, FALSE).value
                = Directives(LinesRead(file), FALSE)

\* C21: the included files of a file the fan-out opened are those of its
\* lines that begin with #include and, when the file ends with m, of those
\* that begin with #import as well.
DirectivesContribute ==
    \A file \in opened :
        IncludedFiles(LinesRead(file), EndsWith(file, <<"m">>), FALSE).value
            = Directives(LinesRead(file), EndsWith(file, <<"m">>))

---------------------------------------------------------------------------
(* Properties of the fan-out: where an included file is looked for         *)

Candidate(base, f) == LexicallyNormal(PathJoin(base, f.filePath))

\* the included files of the file of `entry`
DirectivesOf(entry) ==
    LET ds == Directives(LinesRead(entry.file), EndsWith(entry.file, <<"m">>))
    IN  {ds[k] : k \in 1..Len(ds)}

\* the /I paths of the command of `entry`
IncludeDirs(entry) ==
    LET found == findIncludePaths(entry.command)
    IN  IF found.ok THEN Range(found.value) ELSE {}

\* a quoted include whose file is beside the including file
FoundBeside(entry, f) ==
    f.usesQuotes /\ Exists(Candidate(ParentPath(entry.file), f))

\* where the file of a directive is taken from: beside the including file
\* for a quoted include found there, and on the /I paths otherwise
Resolutions(entry, f) ==
    IF FoundBeside(entry, f) THEN {Candidate(ParentPath(entry.file), f)}
    ELSE {Candidate(base, f) : base \in IncludeDirs(entry)}

Cased(paths) ==
    {getCorrectCasingForPath(p).value :
        p \in {q \in paths : getCorrectCasingForPath(q).ok}}

\* the files the directives of `entry` resolve to
ResolvedFiles(entry) ==
    Cased(UNION {Resolutions(entry, f) : f \in DirectivesOf(entry)})

\* the entries a turn of the fan-out loop appends
Batch == {compileCommands'[i].file :
             i \in (Len(compileCommands) + 1)..Len(compileCommands')}

\* the place of `file` in the list after the turn
PlaceOf(file) ==
    Min({i \in 1..Len(compileCommands') : compileCommands'[i].file = file})

\* every place the file of a directive may be taken from
Candidates(entry, f) ==
    (IF f.usesQuotes THEN {Candidate(ParentPath(entry.file), f)} ELSE {})
    \cup {Candidate(base, f) : base \in IncludeDirs(entry)}

\* no directive of the entries to check but f of ToCheck[k] may give `file`
OnlyFrom(k, f, file) ==
    \A j \in 1..Len(ToCheck) : \A g \in DirectivesOf(ToCheck[j]) :
        (j # k \/ g # f) => file \notin Cased(Candidates(ToCheck[j], g))

\* When a turn of the fan-out appends, for one quoted include, both the copy
\* beside the including file and a copy on an /I path, the copy beside the
\* file comes first.
QuotedIncludeTriesParentFirst ==
    [][(HeaderFanOut /\ pc' \in {"headers", "done"}) =>
          \A k \in 1..Len(ToCheck) : \A f \in DirectivesOf(ToCheck[k]) :
              \A beside \in Cased({Candidate(ParentPath(ToCheck[k].file), f)}) :
              \A onPath \in Cased({Candidate(base, f) : base \in IncludeDirs(ToCheck[k])}) :
                  (/\ ~EndsWith(ToCheck[k].file, <<"m">>) /\ f.usesQuotes
                   /\ beside # onPath /\ {beside, onPath} \subseteq Batch
                   /\ OnlyFrom(k, f, beside) /\ OnlyFrom(k, f, onPath))
                      => PlaceOf(beside) < PlaceOf(onPath)]_vars

\* C22: a quoted include found beside the including file is not looked for
\* on the /I paths: a turn of the fan-out appends only files its entries'
\* directives resolve to, the copy on an /I path of a file found beside the
\* including file not being one.
QuotedIncludeFoundBesideWins ==
    [][(HeaderFanOut /\ pc' \in {"headers", "done"}) =>
          Batch \subseteq UNION {ResolvedFiles(ToCheck[k]) : k \in 1..Len(ToCheck)}]_vars

---------------------------------------------------------------------------
(* Properties of the source stage: the entry of a line                     *)

\* the entry of a source line whose path case-corrects to `file`: the line
\* up to the path and then `file`, after "cl.exe "
EntryOf(line, file) ==
    [directory |-> BuildDir,
     command |-> <<"c","l",".","e","x","e"," ">>
                     \o SubSeq(line, 1, Max(DriveLetters(line)) - 1) \o file,
     file |-> file]

\* C23: the source path of a /c line that ends with an extension is the line
\* from its last letter before a colon (after the first character); when
\* it case-corrects to P and no entry has the file P, the step appends the
\* entry with file P, directory buildDir and the command "cl.exe " and the
\* line with that path replaced by P, and with an entry of P it appends none.
SourceEntryFromLastDrive ==
    [][(/\ ReadTlogLine
        /\ NamesSource(lines[lineIdx])
        /\ DriveLetters(lines[lineIdx]) # {}
        /\ getCorrectCasingForPath(SourcePath(lines[lineIdx])).ok)
          => compileCommands' =
                 IF getCorrectCasingForPath(SourcePath(lines[lineIdx])).value
                        \in Files(compileCommands)
                 THEN compileCommands
                 ELSE Append(compileCommands,
                          EntryOf(lines[lineIdx],
                              getCorrectCasingForPath(SourcePath(lines[lineIdx])).value))
      ]_vars

\* the line /c /IC:\W\INC /Zc:inline C:\W\SRC\A.CPP of t1, with a letter
\* before a colon in /IC: and in /Zc:, has given the entry of C:\w\Src\a.cpp
SourceEntryWasMade ==
    /\ env.tlogFiles # <<>> /\ env.tlogFiles[1] = 1
    /\ compileCommands # <<>>
    /\ compileCommands[1] =
           [directory |-> <<"b","u","i","l","d">>,
            command |-> <<"c","l",".","e","x","e"," ","/","c"," ","/","I","C",":","\\","W","\\","I","N","C"," ","/","Z","c",":","i","n","l","i","n","e"," ","C",":","\\","w","\\","S","r","c","\\","a",".","c","p","p">>,
            file |-> <<"C",":","\\","w","\\","S","r","c","\\","a",".","c","p","p">>]

---------------------------------------------------------------------------
(* Properties of the source stage: a line without a drive letter           *)

\* C24: a /c line that ends with an extension and has no letter before a
\* colon after its first character gives no entry, no warning and no
\* error: the step leaves the commands, the warnings and the error as they
\* were and goes to the next line or the next file.
NoDriveLetterNoEntry ==
    [][(/\ ReadTlogLine
        /\ NamesSource(lines[lineIdx])
        /\ DriveLetters(lines[lineIdx]) = {})
          => /\ compileCommands' = compileCommands
             /\ warnings' = warnings
             /\ error' = error
             /\ pc' = IF lineIdx = Len(lines) THEN "open" ELSE "line"
             /\ tlogIdx' = IF lineIdx = Len(lines) THEN tlogIdx + 1 ELSE tlogIdx
      ]_vars

\* the call on t2 has returned without an error: the line /c /W3 SRC\K.M
\* names the file C:\w\Src\k.m, which exists, and the commands returned
\* hold that of a.cpp and none of k.m; the one warning is that of the line
\* /c C:\W\SRC\GONE.CPP
SourceWithoutDriveLeftOut ==
    /\ Returned /\ env.skipHeaders /\ error = ""
    /\ env.tlogFiles = <<2>>
    /\ Exists(<<"S","R","C","\\","K",".","M">>)
    /\ Files(compileCommands) = {<<"C",":","\\","w","\\","S","r","c","\\","a",".","c","p","p">>}
    /\ Len(warnings) = 1
    /\ warnings[1].line = <<"/","c"," ","C",":","\\","W","\\","S","R","C","\\","G","O","N","E",".","C","P","P">>

=============================================================================
